---- MODULE Spec2Model ----
(***************************************************************************)
(* Reference-aware recursive deletion of the entry deletion utility        *)
(* (src/delete_entry_utility.py, class EntryDeletionUtility) against the   *)
(* entry store gateway (src/lib/contentstack_api.py).                      *)
(*                                                                         *)
(* One run of delete_entry_recursively is a sequential state machine: the  *)
(* Python call stack of traverse_hierarchy_root_first and                  *)
(* recursively_delete_entry is the variable stack, and every gateway call  *)
(* is one step that appends an event to calls.  The entry store is         *)
(* observed lazily: what the gateway answers for an entry is chosen the    *)
(* first time the run asks for it and stays the same afterwards, while     *)
(* failures of single gateway calls are chosen per call.                   *)
(*                                                                         *)
(* An entry body is abstracted to its migration tag and the EntryRefs of   *)
(* its reference-shaped objects (dicts carrying both _content_type_uid and *)
(* uid), which are bare stubs as the management API returns them.  The     *)
(* Hierarchy Walker collects them into a set and iterates the set; the     *)
(* Deletion Executor meets them in document order.  Both orders are chosen *)
(* when the run first observes them.  The top-level entry object itself is *)
(* not reference-shaped.                                                   *)
(*                                                                         *)
(* One run of ContentProcessor.process_content                             *)
(* (src/lib/content_processor.py) with its rollback is a second machine    *)
(* (SpecProcessor) against the same gateway: the nested entries of the     *)
(* input are created leaf to root and the first exception starts           *)
(* rollback_created_entries.                                               *)
(***************************************************************************)
EXTENDS Integers, Sequences, FiniteSets, TLC

\* ---------------------------------------------------------------- bounds
\* total number of nested references in the observed part of the store
MaxEdges == 2
\* number of gateway / file-system failures injected in one run
MaxFaults == 1
\* total number of referrers in the observed part of the store
MaxReferrers == 1

\* ------------------------------------------------------------- EntryRefs
DefaultContentType == "feature_page"

RefA == <<"feature_page", "u1">>
RefB == <<"block", "u2">>
RefC == <<"block", "u1">>

\* the entries of the store; RefA and RefC share their uid
Refs == {RefA, RefB, RefC}

\* an entry outside the hierarchy that may refer to entries of it
ExternalRef == <<"article", "u9">>

\* the value of an absent reference / absent uid (Python None)
NoRef == <<"", "">>
NoUid == ""

\* f"{content_type_uid}/{entry_uid}"
EntryKey(content_type_uid, entry_uid) == <<content_type_uid, entry_uid>>

UidOf(ref) == ref[2]

\* ----------------------------------------------------------- entry bodies
\* the number of nested references of a body
Weight(payload) == Cardinality(payload)

PayloadChoices(budget) == {p \in SUBSET Refs : Cardinality(p) <= budget}

EmptyEntry == [tags |-> FALSE, payload |-> {}]

\* a referrer descriptor with none of the keys entry_uid, uid and entry.uid
AnonymousRef == <<"article", "">>

\* referrer descriptors: the referring entry; the code reads only its uid
Referrer == Refs \cup {ExternalRef, AnonymousRef}

ReferrerLists(budget) == {l \in SUBSET Referrer : Cardinality(l) <= budget}

\* ref.get('entry_uid') or ref.get('uid') or ref['entry']['uid'], None
\* (NoUid) for a descriptor with none of them
ref_entry_uid(descriptor) == UidOf(descriptor)

VARIABLES
    \* inputs of the run
    dry_run,                      \* EntryDeletionUtility.dry_run
    root,                         \* EntryRef of the entry to delete
    \* the entry store as the gateway has shown it so far
    store,                        \* EntryRef -> [tags, payload]: tag and nested EntryRefs
    referrers,                    \* EntryRef -> set of referrer descriptors
    iteration,                    \* set of found references -> its iteration order
    document,                     \* EntryRef -> its nested EntryRefs in document order
    \* EntryDeletionUtility run state
    deleted_entries,
    failed_deletions,
    processed_entries,
    would_delete_entries,
    backed_up_entries,
    backup_file_path,
    reference_analysis,
    referenced_entries,
    orphaned_entries,
    reference_analysis_completed,
    \* control
    phase,                        \* position in delete_entry_recursively
    stack,                        \* call stack of the two recursive walks
    backup_success,               \* local of delete_entry_recursively
    analysis_success,             \* local of delete_entry_recursively
    result,                       \* dict returned by delete_entry_recursively
    \* history
    calls,                        \* gateway calls issued so far, in order
    returned,                     \* the calls of recursively_delete_entry that returned, in order
    faults,                       \* failures injected so far
    first,                        \* outcome of the run before a repetition
    \* ContentProcessor (src/lib/content_processor.py)
    entry_reuse_enabled,          \* ContentProcessor.entry_reuse_enabled
    handle_duplicate_page_id,     \* environment variable HANDLE_DUPLICATE_PAGE_ID
    input_json,                   \* the nested entries of the input, leaf to root
    created_entries,              \* ContentProcessor.created_entries
    entry_cache,                  \* ContentProcessor.entry_cache
    titles,                       \* <<content type, title>> -> the entry a title search finds
    position,                     \* position in process_content and in the rollback
    node,                         \* index in input_json of the entry being processed
    nested_entry_uid,             \* what process_entry returned for each processed node
    rollback_analysis,            \* reference_analysis of rollback_created_entries
    safe_to_delete,               \* local of rollback_created_entries
    protected_entries,            \* local of rollback_created_entries
    delete_index,                 \* iterations done of the loop over safe_to_delete
    \* main of the deletion CLI (src/delete_entry_utility.py)
    cli,                          \* position in main
    typed,                        \* the line input() returned, until it is stripped
    user_input,                   \* local of main: <<>> before the prompt, <<text>> after
    exit_code,                    \* <<>> while main runs, <<code>> after sys.exit(code)
    \* ContentstackAPI.delete_entry (src/lib/contentstack_api.py)
    api,                          \* position in delete_entry
    requests,                     \* HTTP requests sent so far, in order
    delete_result,                \* dict returned by delete_entry
    \* ContentProcessor.complete_workflow_and_publish (src/lib/content_processor.py)
    workflow,                     \* position in complete_workflow_and_publish
    workflow_queue,               \* nested_entries, then root_entry, still to process
    failed_entries,               \* local of process_workflow_for_all_entries
    processed_count,              \* local of process_workflow_for_all_entries
    workflow_calls                \* calls of the workflow and publish methods, in order

vars == <<dry_run, root, store, referrers, deleted_entries, failed_deletions,
          processed_entries, would_delete_entries, backed_up_entries,
          backup_file_path, reference_analysis, referenced_entries,
          orphaned_entries, reference_analysis_completed, phase, stack,
          backup_success, analysis_success, result, calls, returned, faults,
          iteration, document, first, entry_reuse_enabled,
          handle_duplicate_page_id, input_json, created_entries, entry_cache,
          titles, position, node, nested_entry_uid, rollback_analysis,
          safe_to_delete, protected_entries, delete_index, cli, typed,
          user_input, exit_code, api, requests, delete_result, workflow,
          workflow_queue, failed_entries, processed_count, workflow_calls>>

cliVars == <<cli, typed, user_input, exit_code>>
httpVars == <<api, requests, delete_result>>
workflowVars == <<workflow, workflow_queue, failed_entries, processed_count, workflow_calls>>
inputVars == <<dry_run, root, first>>
envVars == <<store, referrers, iteration, document>>
deletionVars == <<deleted_entries, failed_deletions, processed_entries, would_delete_entries>>
backupVars == <<backed_up_entries, backup_file_path, backup_success>>
analysisVars == <<reference_analysis, referenced_entries, orphaned_entries>>
processorVars == <<entry_reuse_enabled, handle_duplicate_page_id, input_json,
                   created_entries, entry_cache, titles, position, node,
                   nested_entry_uid, rollback_analysis, safe_to_delete,
                   protected_entries, delete_index>>
\* the state of the deletion utility apart from the gateway log
utilityVars == <<inputVars, store, iteration, document, deletionVars, backupVars,
                 analysisVars, reference_analysis_completed, phase, stack,
                 analysis_success, result, returned>>

\* ------------------------------------------------------------- utilities
EmptyMap == [r \in {} |-> 0]

Put(map, key, value) == [k \in DOMAIN map \cup {key} |-> IF k = key THEN value ELSE map[k]]

RECURSIVE SumWeights(_, _)
SumWeights(entries, keys) ==
    IF keys = {} THEN 0
    ELSE LET k == CHOOSE x \in keys : TRUE
         IN Weight(entries[k].payload) + SumWeights(entries, keys \ {k})

EdgesUsed == SumWeights(store, DOMAIN store)

RECURSIVE SumReferrers(_, _)
SumReferrers(lists, keys) ==
    IF keys = {} THEN 0
    ELSE LET k == CHOOSE x \in keys : TRUE
         IN Cardinality(lists[k]) + SumReferrers(lists, keys \ {k})

ReferrersUsed == SumReferrers(referrers, DOMAIN referrers)

Orders(S) ==
    {s \in [1..Cardinality(S) -> S] : \A i, j \in 1..Cardinality(S) : i # j => s[i] # s[j]}

Top == stack[Len(stack)]
Pop == SubSeq(stack, 1, Len(stack) - 1)
ReplaceTop(frame) == [stack EXCEPT ![Len(stack)] = frame]
\* the entry whose frame called the top frame
Caller == IF Len(stack) > 1 THEN stack[Len(stack) - 1].ref ELSE NoRef

Frame(fn, ref, parent, data) ==
    [fn |-> fn, ref |-> ref, parent |-> parent, data |-> data, todo |-> <<>>, pc |-> "enter"]

\* a gateway call: operation, calling component, EntryRef and response; for the
\* calls of the Reference Analyzer also the parent uid it filters with and the
\* entry through which the walk reached ref
Event(op, by, ref, resp, parent, via) ==
    [op |-> op, by |-> by, ref |-> ref, resp |-> resp, parent |-> parent, via |-> via]

\* ---------------------------------------------------- entry store gateway
\* When the run repeats an earlier one (first.done), the gateway answers a
\* call as it answered the same call at the same position of the earlier run,
\* except for the fetch of the backup, which has the opposite outcome; a call
\* the earlier run did not make is answered without a failure.  When the
\* repetition iterates its sets in an order of its own (first.reordered), the
\* earlier run had no failure and the repetition has none.
Admissible(op, ref, kind) ==
    LET pos == Len(calls) + 1
    IN IF ~first.done THEN TRUE
       ELSE IF first.reordered THEN kind \in {"ok", "success"}
       ELSE IF pos = 1 THEN (kind = "raise") # (first.calls[1].resp = "raise")
       ELSE IF /\ pos <= Len(first.calls)
               /\ first.calls[pos].op = op
               /\ first.calls[pos].ref = ref
            THEN kind = first.calls[pos].resp
       ELSE kind \in {"ok", "success"}

\* ContentstackAPI.get_entry: the entry body, a response without an entry,
\* or an exception of _make_request
GetEntryOutcomes(ref) ==
    {[kind |-> "ok", entry |-> e] :
        e \in IF ref \in DOMAIN store
              THEN {store[ref]}
              ELSE {[tags |-> t, payload |-> p] :
                        t \in BOOLEAN, p \in PayloadChoices(MaxEdges - EdgesUsed)}}
    \cup
    (IF faults < MaxFaults
     THEN {[kind |-> k, entry |-> EmptyEntry] : k \in {"raise", "no_entry"}}
     ELSE {})

\* get_entry as the Backup Recorder and the Deletion Executor call it
GetEntryResponses(ref) ==
    {resp \in GetEntryOutcomes(ref) : Admissible("get_entry", ref, resp.kind)}

Observe(ref, resp) ==
    IF resp.kind = "ok" THEN Put(store, ref, resp.entry) ELSE store

Fault(resp) == IF resp.kind = "ok" THEN faults ELSE faults + 1

\* get_entry_references of the gateway: a referrer list or an exception
\* (the ContentstackAPI class of src/lib/contentstack_api.py defines no such
\* method, so with it every call raises AttributeError)
GetReferencesResponses(ref) ==
    {resp \in
        {[kind |-> "ok", references |-> l] :
            l \in IF ref \in DOMAIN referrers
                  THEN {referrers[ref]}
                  ELSE ReferrerLists(MaxReferrers - ReferrersUsed)}
        \cup
        (IF faults < MaxFaults THEN {[kind |-> "raise", references |-> {}]} ELSE {}) :
     Admissible("get_entry_references", ref, resp.kind)}

\* ContentstackAPI.delete_entry reports one of four outcomes, never raises
DeleteOutcomes(ref) ==
    {outcome \in
        {"success"} \cup
        (IF faults < MaxFaults THEN {"already_deleted", "protected", "error"} ELSE {}) :
     Admissible("delete_entry", ref, outcome)}

\* EntryDeletionUtility.fetch_entry_details: the entry, or None for a response
\* without an entry as for an exception of the gateway
fetch_entry_details(ref) ==
    {resp \in
        {[kind |-> IF outcome.kind = "ok" THEN "ok" ELSE "none", entry |-> outcome.entry] :
            outcome \in GetEntryOutcomes(ref)} :
     Admissible("get_entry", ref, resp.kind)}

Found(resp) == resp.kind = "ok"

\* the order in which Python iterates a set of found references: fixed by
\* the string hashes of the process, any order for a set not iterated before
IterationOrders(S) ==
    IF S \in DOMAIN iteration THEN {iteration[S]} ELSE Orders(S)

\* ------------------------------------------------------------- scanners
\* the set of references find_nested_entries collects from a body
find_nested_entries(payload) == payload

\* the references _process_nested_entries hands to recursively_delete_entry,
\* in the order of the fetched body; a response without an entry has none
process_nested_entries(ref, resp) ==
    IF resp.kind # "ok" THEN {<<>>}
    ELSE IF ref \in DOMAIN document THEN {document[ref]}
    ELSE Orders(resp.entry.payload)

\* no run came before this one
NoRun == [done |-> FALSE, reordered |-> FALSE, backup_success |-> "none",
          calls |-> <<>>, result |-> [success |-> FALSE, error |-> "none"],
          deleted_entries |-> {}, would_delete_entries |-> {},
          failed_deletions |-> EmptyMap, reference_analysis |-> EmptyMap]

\* ------------------------------------------------------------------ Init
\* no ContentProcessor takes part in a run of the deletion utility
NoProcessor ==
    /\ entry_reuse_enabled = FALSE
    /\ handle_duplicate_page_id = FALSE
    /\ input_json = <<>>
    /\ created_entries = <<>>
    /\ entry_cache = EmptyMap
    /\ titles = EmptyMap
    /\ position = "idle"
    /\ node = 0
    /\ nested_entry_uid = <<>>
    /\ rollback_analysis = EmptyMap
    /\ safe_to_delete = <<>>
    /\ protected_entries = <<>>
    /\ delete_index = 0

\* no command line takes part: the utility is called as a library
NoMain ==
    /\ cli = "idle"
    /\ typed = <<>>
    /\ user_input = <<>>
    /\ exit_code = <<>>

\* the workflow of a processed document is not started
NoWorkflow ==
    /\ workflow = "idle"
    /\ workflow_queue = <<>>
    /\ failed_entries = <<>>
    /\ processed_count = 0
    /\ workflow_calls = <<>>

\* the requests of the gateway are not looked into
NoRequest ==
    /\ api = "idle"
    /\ requests = <<>>
    /\ delete_result = EmptyMap

Init ==
    /\ NoMain
    /\ NoWorkflow
    /\ NoRequest
    /\ NoProcessor
    /\ dry_run \in BOOLEAN
    /\ \E content_type_uid \in {NoUid, DefaultContentType} :
          root = EntryKey(IF content_type_uid = NoUid THEN DefaultContentType
                          ELSE content_type_uid, "u1")
    /\ store = EmptyMap
    /\ referrers = EmptyMap
    /\ iteration = EmptyMap
    /\ document = EmptyMap
    /\ first = NoRun
    /\ deleted_entries = {}
    /\ failed_deletions = EmptyMap
    /\ processed_entries = {}
    /\ would_delete_entries = {}
    /\ backed_up_entries = {}
    /\ backup_file_path = FALSE
    /\ reference_analysis = EmptyMap
    /\ referenced_entries = {}
    /\ orphaned_entries = {}
    /\ reference_analysis_completed = FALSE
    /\ phase = "backup"
    /\ stack = <<>>
    /\ backup_success = "none"
    /\ analysis_success = "none"
    /\ result = [success |-> FALSE, error |-> "none"]
    /\ calls = <<>>
    /\ returned = <<>>
    /\ faults = 0

\* ------------------------------------------------------ Backup Recorder
\* the standard-library file write of save_backup_to_file succeeds or raises
WriteOutcomes(faultsSoFar) ==
    {"ok"} \cup (IF faultsSoFar < MaxFaults THEN {"raise"} ELSE {})

\* delete_entry_recursively up to the analysis: backup_entry_recursively,
\* then save_backup_to_file when the backup succeeded.  An exception of the
\* file write reaches the handler of delete_entry_recursively.
BackupRecorder ==
    \E resp \in GetEntryResponses(root) :
          /\ calls' = Append(calls, Event("get_entry", "backup", root, resp.kind, NoUid, NoRef))
          /\ store' = Observe(root, resp)
          /\ IF resp.kind = "raise"
             THEN /\ backup_success' = "false"
                  /\ faults' = Fault(resp)
                  /\ phase' = "analysis"
                  /\ UNCHANGED <<backed_up_entries, backup_file_path, result>>
             ELSE \E write \in WriteOutcomes(Fault(resp)) :
                  /\ backup_success' = "true"
                  /\ backed_up_entries' = backed_up_entries \cup {root}
                  /\ IF write = "ok"
                     THEN /\ backup_file_path' = TRUE
                          /\ faults' = Fault(resp)
                          /\ phase' = "analysis"
                          /\ UNCHANGED result
                     ELSE /\ faults' = Fault(resp) + 1
                          /\ phase' = "done"
                          /\ result' = [success |-> FALSE, error |-> "exception"]
                          /\ UNCHANGED backup_file_path

\* variant: a dry run takes no backup
BackupEntry_not_in_dry_run ==
    /\ phase = "backup"
    /\ IF dry_run
       THEN /\ phase' = "analysis"
            /\ UNCHANGED <<store, backupVars, result, calls, faults>>
       ELSE BackupRecorder
    /\ UNCHANGED <<cliVars, httpVars, workflowVars, processorVars, inputVars, iteration, document, referrers, deletionVars, analysisVars,
                   reference_analysis_completed, stack, analysis_success, returned>>

\* delete_entry_recursively: the backup comes first, whatever the mode
BackupEntry ==
    /\ phase = "backup"
    /\ BackupRecorder
    /\ UNCHANGED <<cliVars, httpVars, workflowVars, processorVars, inputVars, iteration, document, referrers, deletionVars, analysisVars,
                   reference_analysis_completed, stack, analysis_success, returned>>

\* --------------------------------------------------- Reference Analyzer
Verdict(to_be_deleted, references, reason, from, has_migration_tag) ==
    [to_be_deleted |-> to_be_deleted, references |-> references, reason |-> reason,
     from |-> from, has_migration_tag |-> has_migration_tag]

\* variant: the tag is not looked at
has_migration_tag_any(entry) == TRUE

\* 'migrated-from-cms' in entry_data['tags']
has_migration_tag(entry) == entry.tags

\* variant: the traversal parent is not filtered out
external_references_unfiltered(all_references, parent_entry_uid) == all_references

\* the referrers that are not the traversal parent
external_references(all_references, parent_entry_uid) ==
    {d \in all_references : ref_entry_uid(d) # parent_entry_uid}

\* the verdict of analyze_entry_references once the referrer list is known
references_verdict(all_references, parent_entry_uid) ==
    LET external == external_references(all_references, parent_entry_uid)
    IN IF Cardinality(external) > 0
       THEN Verdict(FALSE, external, "Referenced in other entries", NoRef, TRUE)
       ELSE Verdict(TRUE, {}, "No external references found", NoRef, TRUE)

\* immediate_parent_uid or root_entry_uid
parent_for_filtering(frame) ==
    IF frame.parent # NoUid THEN frame.parent ELSE UidOf(root)

\* ----------------------------------------------------- Hierarchy Walker
\* variant: a failed analysis is only logged, as a failed backup is
analysis_failed_ignored(success, completed) == FALSE

\* the outcome of line 351 and what delete_entry_recursively does next
analysis_failed(success, completed) == (~success) \/ (~completed)

AfterAnalysis(success, completed) ==
    /\ analysis_success' = (IF success THEN "true" ELSE "false")
    /\ reference_analysis_completed' = completed
    /\ IF analysis_failed(success, completed)
       THEN /\ result' = [success |-> FALSE, error |-> "Reference analysis failed"]
            /\ phase' = "done"
            /\ stack' = <<>>
       ELSE /\ phase' = "deleting"
            /\ stack' = <<Frame("delete", root, NoUid, <<>>)>>
            /\ UNCHANGED result

\* analyze_entry_hierarchy_for_references: the fetch of the root
AnalyzeHierarchy ==
    /\ phase = "analysis"
    /\ \E resp \in fetch_entry_details(root) :
          /\ calls' = Append(calls, Event("get_entry", "analysis", root, resp.kind, NoUid, NoRef))
          /\ store' = Observe(root, resp)
          /\ faults' = Fault(resp)
          /\ IF Found(resp)
             THEN /\ phase' = "walking"
                  /\ stack' = <<Frame("traverse", root, NoUid, resp.entry.payload)>>
                  /\ UNCHANGED <<analysis_success, reference_analysis_completed, result>>
             ELSE AfterAnalysis(FALSE, reference_analysis_completed)
    /\ UNCHANGED <<cliVars, httpVars, workflowVars, processorVars, inputVars, iteration, document, referrers, deletionVars, backupVars, analysisVars, returned>>

\* traverse_hierarchy_root_first returned to analyze_entry_hierarchy_for_references
AnalysisComplete ==
    /\ phase = "walking"
    /\ stack = <<>>
    /\ AfterAnalysis(TRUE, TRUE)
    /\ UNCHANGED <<cliVars, httpVars, workflowVars, processorVars, inputVars, iteration, document, store, referrers, deletionVars, backupVars, analysisVars,
                   calls, returned, faults>>

\* variant: an entry with a recorded verdict is analysed again
already_analysed_never(analysis, key) == FALSE

\* if entry_key in self.reference_analysis: return
already_analysed(analysis, key) == key \in DOMAIN analysis

\* variant: an entry that could not be fetched may be deleted
entry_not_found_deletable == Verdict(TRUE, {}, "Entry not found", NoRef, FALSE)

\* analyze_entry_references: the verdict for an entry fetch_entry_details
\* returned None for
entry_not_found == Verdict(FALSE, {}, "Entry not found", NoRef, FALSE)

\* traverse_hierarchy_root_first: the revisit guard, then the first half of
\* analyze_entry_references (fetch of the entry and the migration tag)
WalkAnalyze ==
    /\ phase = "walking"
    /\ stack # <<>>
    /\ Top.fn = "traverse"
    /\ Top.pc = "enter"
    /\ LET f == Top
           key == f.ref
       IN IF already_analysed(reference_analysis, key)
          THEN /\ stack' = Pop
               /\ UNCHANGED <<store, analysisVars, calls, faults>>
          ELSE \E resp \in fetch_entry_details(key) :
               /\ calls' = Append(calls, Event("get_entry", "analysis", key, resp.kind,
                                               parent_for_filtering(f), Caller))
               /\ store' = Observe(key, resp)
               /\ faults' = Fault(resp)
               /\ IF ~Found(resp)
                  THEN /\ reference_analysis' = Put(reference_analysis, key, entry_not_found)
                       /\ stack' = ReplaceTop([f EXCEPT !.pc = "scan"])
                       /\ UNCHANGED <<referenced_entries, orphaned_entries>>
                  ELSE IF ~has_migration_tag(resp.entry)
                  THEN /\ reference_analysis' =
                            Put(reference_analysis, key,
                                Verdict(FALSE, {}, "Missing migrated-from-cms tag", NoRef, FALSE))
                       /\ referenced_entries' = referenced_entries \cup {key}
                       /\ stack' = ReplaceTop([f EXCEPT !.pc = "scan"])
                       /\ UNCHANGED orphaned_entries
                  ELSE /\ stack' = ReplaceTop([f EXCEPT !.pc = "references"])
                       /\ UNCHANGED analysisVars
    /\ UNCHANGED <<cliVars, httpVars, workflowVars, processorVars, inputVars, iteration, document, referrers, deletionVars, backupVars,
                   reference_analysis_completed, phase, analysis_success, result, returned>>

\* str(error) for the exception of a reference query
str_error == "get_entry_references failed"

\* variant: an entry whose analysis raised may be deleted
analysis_error_deletable(error) ==
    Verdict(TRUE, {}, "Analysis error: " \o error, NoRef, FALSE)

\* the handler of analyze_entry_references: fail-closed, with
\* f'Analysis error: {str(error)}' as the reason
analysis_error(error) ==
    Verdict(FALSE, {}, "Analysis error: " \o error, NoRef, FALSE)

\* analyze_entry_references: the reference query and the verdict
WalkReferences ==
    /\ phase = "walking"
    /\ stack # <<>>
    /\ Top.fn = "traverse"
    /\ Top.pc = "references"
    /\ LET f == Top
           key == f.ref
       IN \E resp \in GetReferencesResponses(key) :
          /\ calls' = Append(calls, Event("get_entry_references", "analysis", key, resp.kind,
                                          parent_for_filtering(f), Caller))
          /\ faults' = Fault(resp)
          /\ stack' = ReplaceTop([f EXCEPT !.pc = "scan"])
          /\ IF resp.kind = "ok"
             THEN LET verdict == references_verdict(resp.references, parent_for_filtering(f))
                  IN /\ referrers' = Put(referrers, key, resp.references)
                     /\ reference_analysis' = Put(reference_analysis, key, verdict)
                     /\ IF verdict.to_be_deleted
                        THEN /\ orphaned_entries' = orphaned_entries \cup {key}
                             /\ UNCHANGED referenced_entries
                        ELSE /\ referenced_entries' = referenced_entries \cup {key}
                             /\ UNCHANGED orphaned_entries
             ELSE /\ reference_analysis' =
                       Put(reference_analysis, key, analysis_error(str_error))
                  /\ referenced_entries' = referenced_entries \cup {key}
                  /\ UNCHANGED <<referrers, orphaned_entries>>
    /\ UNCHANGED <<cliVars, httpVars, workflowVars, processorVars, inputVars, iteration, document, store, deletionVars, backupVars,
                   reference_analysis_completed, phase, analysis_success, result, returned>>

\* variant: a protected parent writes nothing for its nested entries
inherit_protection_none(analysis, nested, parent_key) == analysis

\* variant: the inherited verdict replaces a verdict recorded before
inherit_protection_overwrite(analysis, nested, parent_key) ==
    [k \in DOMAIN analysis \cup nested |->
        IF k \in nested
        THEN Verdict(FALSE, {}, "Inherited protection from parent", parent_key, FALSE)
        ELSE analysis[k]]

\* the inherited-protection writes of a protected parent
inherit_protection(analysis, nested, parent_key) ==
    [k \in DOMAIN analysis \cup nested |->
        IF k \in DOMAIN analysis THEN analysis[k]
        ELSE Verdict(FALSE, {}, "Inherited protection from parent", parent_key, FALSE)]

\* traverse_hierarchy_root_first after the verdict: the scan of the payload
\* handed to it; a protected entry passes its protection on and returns, an
\* orphaned one iterates the set of found references
WalkScan ==
    /\ phase = "walking"
    /\ stack # <<>>
    /\ Top.fn = "traverse"
    /\ Top.pc = "scan"
    /\ LET f == Top
           nested == find_nested_entries(f.data)
       IN IF ~reference_analysis[f.ref].to_be_deleted
          THEN /\ reference_analysis' = inherit_protection(reference_analysis, nested, f.ref)
               /\ referenced_entries' =
                      referenced_entries \cup (nested \ DOMAIN reference_analysis)
               /\ stack' = Pop
               /\ UNCHANGED <<orphaned_entries, iteration>>
          ELSE /\ \E order \in IterationOrders(nested) :
                      /\ stack' = ReplaceTop([f EXCEPT !.todo = order, !.pc = "children"])
                      /\ iteration' = Put(iteration, nested, order)
               /\ UNCHANGED analysisVars
    /\ UNCHANGED <<cliVars, httpVars, workflowVars, processorVars, inputVars, document, store, referrers, deletionVars, backupVars,
                   reference_analysis_completed, phase, analysis_success, result,
                   calls, returned, faults>>

\* traverse_hierarchy_root_first: the loop over the children of an orphaned
\* entry, one fetch_entry_details per child
WalkChild ==
    /\ phase = "walking"
    /\ stack # <<>>
    /\ Top.fn = "traverse"
    /\ Top.pc = "children"
    /\ LET f == Top
       IN IF f.todo = <<>>
          THEN /\ stack' = Pop
               /\ UNCHANGED <<store, calls, faults>>
          ELSE LET child == Head(f.todo)
                   rest == [f EXCEPT !.todo = Tail(f.todo)]
               IN \E resp \in fetch_entry_details(child) :
                  /\ calls' = Append(calls, Event("get_entry", "analysis", child, resp.kind, NoUid, NoRef))
                  /\ store' = Observe(child, resp)
                  /\ faults' = Fault(resp)
                  /\ IF Found(resp)
                     THEN stack' = Append(ReplaceTop(rest),
                                          Frame("traverse", child, UidOf(f.ref),
                                                resp.entry.payload))
                     ELSE stack' = ReplaceTop(rest)
    /\ UNCHANGED <<cliVars, httpVars, workflowVars, processorVars, inputVars, iteration, document, referrers, deletionVars, backupVars, analysisVars,
                   reference_analysis_completed, phase, analysis_success, result, returned>>

\* --------------------------------------------------- Deletion Executor
\* variant: the guard never fires
already_processed_never(processed, key) == FALSE

\* the idempotence guard of recursively_delete_entry
already_processed(processed, key) == key \in processed

\* variant: the check looks only for the presence of a verdict
safety_check_presence_only(completed, analysis, key) ==
    IF completed /\ key \notin DOMAIN analysis THEN "not_analyzed" ELSE "proceed"

\* the safety check of recursively_delete_entry
safety_check(completed, analysis, key) ==
    IF completed
    THEN IF key \notin DOMAIN analysis THEN "not_analyzed"
         ELSE IF ~analysis[key].to_be_deleted THEN "protected"
         ELSE "proceed"
    ELSE "proceed"

\* delete_entry_recursively after the executor is back from the root: the
\* summary, whatever the executor deleted
Summary ==
    /\ phase' = "done"
    /\ result' = [success |-> TRUE, error |-> "none"]

\* variant: an exception leaves recursively_delete_entry and ends the run in
\* the handler of delete_entry_recursively
Return_propagating(outcome) ==
    /\ returned' = Append(returned, [caller |-> Caller, ref |-> Top.ref, outcome |-> outcome])
    /\ IF outcome = "exception"
       THEN /\ stack' = <<>>
            /\ phase' = "done"
            /\ result' = [success |-> FALSE, error |-> "exception"]
       ELSE /\ stack' = Pop
            /\ IF Len(stack) = 1 THEN Summary ELSE UNCHANGED <<phase, result>>

\* recursively_delete_entry returns with an outcome, to the call for its
\* parent or, from the root, to delete_entry_recursively
Return(outcome) ==
    /\ stack' = Pop
    /\ returned' = Append(returned, [caller |-> Caller, ref |-> Top.ref, outcome |-> outcome])
    /\ IF Len(stack) = 1 THEN Summary ELSE UNCHANGED <<phase, result>>

\* recursively_delete_entry up to the end of the fetch
DeleteVisit ==
    /\ phase = "deleting"
    /\ stack # <<>>
    /\ Top.fn = "delete"
    /\ Top.pc = "enter"
    /\ LET f == Top
           key == f.ref
       IN IF already_processed(processed_entries, key)
          THEN /\ Return("skipped")
               /\ UNCHANGED <<store, document, processed_entries, failed_deletions, calls, faults>>
          ELSE /\ processed_entries' = processed_entries \cup {key}
               /\ IF safety_check(reference_analysis_completed, reference_analysis, key) # "proceed"
                  THEN /\ Return(safety_check(reference_analysis_completed,
                                                reference_analysis, key))
                       /\ UNCHANGED <<store, document, failed_deletions, calls, faults>>
                  ELSE \E resp \in GetEntryResponses(key) :
                       /\ calls' = Append(calls, Event("get_entry", "deletion", key, resp.kind, NoUid, NoRef))
                       /\ store' = Observe(key, resp)
                       /\ faults' = Fault(resp)
                       /\ IF resp.kind = "raise"
                          THEN /\ failed_deletions' = Put(failed_deletions, key, "exception")
                               /\ Return("exception")
                               /\ UNCHANGED document
                          ELSE /\ \E order \in process_nested_entries(key, resp) :
                                    /\ stack' = ReplaceTop(
                                          [f EXCEPT !.data = order,
                                                    !.todo = order,
                                                    !.pc = "children"])
                                    /\ document' = IF resp.kind = "ok"
                                                   THEN Put(document, key, order)
                                                   ELSE document
                               /\ UNCHANGED <<failed_deletions, returned, phase, result>>
    /\ UNCHANGED <<cliVars, httpVars, workflowVars, processorVars, inputVars, iteration, referrers, deleted_entries, would_delete_entries, backupVars,
                   analysisVars, reference_analysis_completed, analysis_success>>

\* variant: a single pass, in which the executor asks for the referrers of a
\* nested entry and writes its verdict when it descends into it
DeleteChild_analysing ==
    /\ phase = "deleting"
    /\ stack # <<>>
    /\ Top.fn = "delete"
    /\ Top.pc = "children"
    /\ Top.todo # <<>>
    /\ stack' = Append(ReplaceTop([Top EXCEPT !.todo = Tail(Top.todo)]),
                       Frame("delete", Head(Top.todo), NoUid, <<>>))
    /\ \E resp \in GetReferencesResponses(Head(Top.todo)) :
          /\ calls' = Append(calls, Event("get_entry_references", "deletion", Head(Top.todo),
                                          resp.kind, UidOf(Top.ref), Top.ref))
          /\ faults' = Fault(resp)
          /\ referrers' = IF resp.kind = "ok"
                          THEN Put(referrers, Head(Top.todo), resp.references)
                          ELSE referrers
          /\ reference_analysis' =
                Put(reference_analysis, Head(Top.todo),
                    IF resp.kind = "ok"
                    THEN references_verdict(resp.references, UidOf(Top.ref))
                    ELSE analysis_error(str_error))
    /\ UNCHANGED <<cliVars, httpVars, workflowVars, processorVars, inputVars, iteration, document, store,
                   deletionVars, backupVars, referenced_entries, orphaned_entries,
                   reference_analysis_completed, phase, analysis_success, result, returned>>

\* _process_nested_entries: the call for the next nested reference
DeleteChild ==
    /\ phase = "deleting"
    /\ stack # <<>>
    /\ Top.fn = "delete"
    /\ Top.pc = "children"
    /\ Top.todo # <<>>
    /\ stack' = Append(ReplaceTop([Top EXCEPT !.todo = Tail(Top.todo)]),
                       Frame("delete", Head(Top.todo), NoUid, <<>>))
    /\ UNCHANGED <<cliVars, httpVars, workflowVars, processorVars, inputVars, iteration, document, store, referrers, deletionVars, backupVars, analysisVars,
                   reference_analysis_completed, phase, analysis_success, result,
                   calls, returned, faults>>

\* variant: the entry's own delete does not wait for its nested entries
ready_to_delete_at_once(frame) == TRUE

\* the entry's own delete comes after _process_nested_entries has returned
ready_to_delete(frame) == frame.todo = <<>>

\* variant: a dry run deletes like a live run
simulate_never == FALSE

\* if self.dry_run: the deletion is simulated
simulate == dry_run

\* len(self.would_delete_entries) and len(self.deleted_entries) of the summary
total_would_delete == Cardinality(would_delete_entries)
total_deleted == Cardinality(deleted_entries)

\* variant: an entry the gateway found already deleted does not count
delete_succeeded_strict(outcome) == outcome = "success"

\* result.get('success'): set for a deletion and for an entry already deleted
delete_succeeded(outcome) == outcome \in {"success", "already_deleted"}

\* the reason recorded for a failed deletion; the gateway's error message is
\* one text
failure_reason(outcome) ==
    IF outcome = "protected"
    THEN "Protected entry - requires manual deletion"
    ELSE "error"

\* recursively_delete_entry: delete or simulate, and classify the outcome
DeleteSelf ==
    /\ phase = "deleting"
    /\ stack # <<>>
    /\ Top.fn = "delete"
    /\ Top.pc = "children"
    /\ ready_to_delete(Top)
    /\ LET key == Top.ref
       IN IF simulate
          THEN /\ would_delete_entries' = would_delete_entries \cup {key}
               /\ UNCHANGED <<deleted_entries, failed_deletions, calls, faults>>
          ELSE \E outcome \in DeleteOutcomes(key) :
               /\ calls' = Append(calls, Event("delete_entry", "deletion", key, outcome, NoUid, NoRef))
               /\ faults' = IF outcome = "success" THEN faults ELSE faults + 1
               /\ IF delete_succeeded(outcome)
                  THEN /\ deleted_entries' = deleted_entries \cup {key}
                       /\ UNCHANGED failed_deletions
                  ELSE /\ failed_deletions' =
                            Put(failed_deletions, key, failure_reason(outcome))
                       /\ UNCHANGED deleted_entries
               /\ UNCHANGED would_delete_entries
    /\ Return("success")
    /\ UNCHANGED <<cliVars, httpVars, workflowVars, processorVars, inputVars, iteration, document, store, referrers, processed_entries, backupVars, analysisVars,
                   reference_analysis_completed, analysis_success>>

Next ==
    \/ BackupEntry
    \/ AnalyzeHierarchy
    \/ WalkAnalyze
    \/ WalkReferences
    \/ WalkScan
    \/ WalkChild
    \/ AnalysisComplete
    \/ DeleteVisit
    \/ DeleteChild
    \/ DeleteSelf

Spec == Init /\ [][Next]_vars

\* ------------------------------------------------------ repeated runs
\* the outcome of a finished run, kept for the comparison with a repetition
FirstRun(reordered) ==
    [done |-> TRUE, reordered |-> reordered, backup_success |-> backup_success,
     calls |-> calls, result |-> result,
     deleted_entries |-> deleted_entries,
     would_delete_entries |-> would_delete_entries,
     failed_deletions |-> failed_deletions,
     reference_analysis |-> reference_analysis]

\* A second invocation of the utility with the same arguments on the store
\* as it was before the first one: a fresh EntryDeletionUtility (__init__),
\* the outcome of the first run kept for comparison.  The repetition may fail once more than a
\* single run, for the fetch of its backup.
Restart ==
    /\ phase = "done"
    /\ ~first.done
    /\ first' = FirstRun(FALSE)
    /\ deleted_entries' = {}
    /\ failed_deletions' = EmptyMap
    /\ processed_entries' = {}
    /\ would_delete_entries' = {}
    /\ backed_up_entries' = {}
    /\ backup_file_path' = FALSE
    /\ reference_analysis' = EmptyMap
    /\ referenced_entries' = {}
    /\ orphaned_entries' = {}
    /\ reference_analysis_completed' = FALSE
    /\ phase' = "backup"
    /\ stack' = <<>>
    /\ backup_success' = "none"
    /\ analysis_success' = "none"
    /\ result' = [success |-> FALSE, error |-> "none"]
    /\ calls' = <<>>
    /\ returned' = <<>>
    /\ faults' = -1
    /\ UNCHANGED <<cliVars, httpVars, workflowVars, processorVars, dry_run, root, envVars>>

NextRepeated ==
    \/ Next
    \/ Restart

SpecRepeated == Init /\ [][NextRepeated]_vars

\* ------------------------------------------------------ sibling orders
\* A second invocation on the same store in another process: the string
\* hashes differ, so the sets of found references may be iterated in another
\* order.  The store is known from the start, no call fails, and the referrer
\* list of an entry names the entries whose bodies refer to it.

\* the smallest hierarchy in which the order of two siblings matters has two
\* siblings and a reference from one to the other
OrderEdges == MaxEdges + 1

Hierarchies ==
    {s \in [Refs -> [tags : BOOLEAN, payload : SUBSET Refs]] :
        SumWeights(s, Refs) <= OrderEdges}

InitOrders ==
    /\ NoMain
    /\ NoWorkflow
    /\ NoRequest
    /\ NoProcessor
    /\ dry_run \in BOOLEAN
    /\ root = EntryKey(DefaultContentType, "u1")
    /\ store \in Hierarchies
    \* the referrer lists agree with the references of the bodies
    /\ referrers = [ref \in Refs |-> {p \in Refs : ref \in store[p].payload}]
    /\ iteration = EmptyMap
    /\ document = EmptyMap
    /\ first = NoRun
    /\ deleted_entries = {}
    /\ failed_deletions = EmptyMap
    /\ processed_entries = {}
    /\ would_delete_entries = {}
    /\ backed_up_entries = {}
    /\ backup_file_path = FALSE
    /\ reference_analysis = EmptyMap
    /\ referenced_entries = {}
    /\ orphaned_entries = {}
    /\ reference_analysis_completed = FALSE
    /\ phase = "backup"
    /\ stack = <<>>
    /\ backup_success = "none"
    /\ analysis_success = "none"
    /\ result = [success |-> FALSE, error |-> "none"]
    /\ calls = <<>>
    /\ returned = <<>>
    /\ faults = MaxFaults

\* the second invocation: a fresh EntryDeletionUtility (__init__) in a
\* process with string hashes of its own
RestartReordered ==
    /\ phase = "done"
    /\ ~first.done
    /\ first' = FirstRun(TRUE)
    /\ iteration' = EmptyMap
    /\ deleted_entries' = {}
    /\ failed_deletions' = EmptyMap
    /\ processed_entries' = {}
    /\ would_delete_entries' = {}
    /\ backed_up_entries' = {}
    /\ backup_file_path' = FALSE
    /\ reference_analysis' = EmptyMap
    /\ referenced_entries' = {}
    /\ orphaned_entries' = {}
    /\ reference_analysis_completed' = FALSE
    /\ phase' = "backup"
    /\ stack' = <<>>
    /\ backup_success' = "none"
    /\ analysis_success' = "none"
    /\ result' = [success |-> FALSE, error |-> "none"]
    /\ calls' = <<>>
    /\ returned' = <<>>
    /\ UNCHANGED <<cliVars, httpVars, workflowVars, processorVars, dry_run, root, store,
                   document, referrers, faults>>

NextOrders ==
    \/ Next
    \/ RestartReordered

SpecOrders == InitOrders /\ [][NextOrders]_vars

\* ------------------------------------------------------ Content Processor
\* One run of ContentProcessor.process_content (src/lib/content_processor.py):
\* the nested entries of the input are created leaf to root, each either
\* reused after a title search or created; the first exception starts
\* rollback_created_entries and is raised again after it.

\* a further entry the gateway may hand out when an entry is created
RefD == <<"block", "u3">>

\* the entries a run of the processor can create or reuse
NewRefs == Refs \cup {RefD}

Titles == {"t1", "t2"}

\* the shapes of an input document of n nested entries, as the parent of each
\* entry in the order process_entry finishes them: children before their
\* parent, the root (parent 0) last
InputTrees(n) ==
    {p \in [1..n -> 0..n] :
        /\ p[n] = 0
        /\ \A k \in 1..(n - 1) :
              /\ p[k] > k
              /\ \A j \in (k + 1)..(p[k] - 1) : p[j] <= p[k]}

Inputs ==
    UNION {{[k \in 1..n |-> [title |-> t[k], parent |-> p[k]]] :
                t \in [1..n -> Titles], p \in InputTrees(n)} :
           n \in 1..(MaxEdges + 1)}

\* process_content creates the root as 'feature_page'; a nested entry has the
\* _content_type_uid of its object
content_type_of(k) == IF input_json[k].parent = 0 THEN DefaultContentType ELSE "block"

\* the entries this run has created or reused, or that a search has shown
KnownRefs ==
    {EntryKey(e.content_type, e.uid) : e \in {created_entries[k] : k \in DOMAIN created_entries}}
    \cup DOMAIN entry_cache
    \cup {titles[key] : key \in DOMAIN titles}

\* the uid the gateway gives a new entry is one no entry of that content type
\* has; RefD comes into play when the other entries are used up
FreshRefs(content_type_uid) ==
    LET fresh(S) == {ref \in S : ref[1] = content_type_uid /\ ref \notin KnownRefs}
    IN IF fresh(Refs) # {} THEN fresh(Refs) ELSE fresh(NewRefs)

\* ContentstackAPI.search_entry_by_title: the entry with that title and the
\* migration tag, or nothing (NoRef) when there is none or the request failed
search_entry_by_title(content_type_uid, title) ==
    LET key == <<content_type_uid, title>>
    IN IF key \in DOMAIN titles
       THEN {[kind |-> "found", ref |-> titles[key]]}
            \cup (IF faults < MaxFaults THEN {[kind |-> "raise", ref |-> NoRef]} ELSE {})
       ELSE {[kind |-> "not_found", ref |-> NoRef]}
            \cup {[kind |-> "found", ref |-> ref] : ref \in FreshRefs(content_type_uid)}

\* ContentstackAPI.create_entry: the new entry, or an exception, which may be
\* the one is_duplicate_page_id_error recognises
create_entry(content_type_uid) ==
    {[kind |-> "created", ref |-> ref] : ref \in FreshRefs(content_type_uid)}
    \cup {[kind |-> k, ref |-> NoRef] : k \in {"raise", "duplicate_page_id"}}

\* the position at which create_entry_with_retry starts
EntryStart == IF entry_reuse_enabled THEN "search" ELSE "create"

InitProcessor ==
    /\ NoMain
    /\ NoWorkflow
    /\ NoRequest
    /\ entry_reuse_enabled \in BOOLEAN
    /\ handle_duplicate_page_id \in BOOLEAN
    /\ input_json \in Inputs
    \* titles matter only by being equal or different: the first one is "t1"
    /\ input_json[1].title = "t1"
    /\ entry_reuse_enabled \/ \A k \in DOMAIN input_json : input_json[k].title = "t1"
    /\ created_entries = <<>>
    /\ entry_cache = EmptyMap
    /\ titles = EmptyMap
    /\ position = "start"
    /\ node = 1
    /\ nested_entry_uid = <<>>
    /\ rollback_analysis = EmptyMap
    /\ safe_to_delete = <<>>
    /\ protected_entries = <<>>
    /\ delete_index = 0
    /\ dry_run = FALSE
    /\ root = RefA
    /\ store = EmptyMap
    /\ referrers = EmptyMap
    /\ iteration = EmptyMap
    /\ document = EmptyMap
    /\ first = NoRun
    /\ deleted_entries = {}
    /\ failed_deletions = EmptyMap
    /\ processed_entries = {}
    /\ would_delete_entries = {}
    /\ backed_up_entries = {}
    /\ backup_file_path = FALSE
    /\ reference_analysis = EmptyMap
    /\ referenced_entries = {}
    /\ orphaned_entries = {}
    /\ reference_analysis_completed = FALSE
    /\ phase = "idle"
    /\ stack = <<>>
    /\ backup_success = "none"
    /\ analysis_success = "none"
    /\ result = [success |-> FALSE, error |-> "none"]
    /\ calls = <<>>
    /\ returned = <<>>
    /\ faults = 0

\* rollback_created_entries up to its first gateway call: it returns at once
\* when no entry was created, and process_content raises again
rollback_created_entries ==
    position' = IF created_entries = <<>> THEN "raised" ELSE "analyze"

\* process_entry after create_entry_with_retry returned: the entry is cached
\* and its uid goes back to the parent; the root's uid ends process_content
EntryProcessed(ref, is_existing) ==
    /\ entry_cache' = Put(entry_cache, ref, [is_existing |-> is_existing])
    /\ nested_entry_uid' = Append(nested_entry_uid, ref)
    /\ IF node = Len(input_json)
       THEN /\ position' = "returned"
            /\ UNCHANGED node
       ELSE /\ position' = EntryStart
            /\ node' = node + 1

\* process_content up to the entries: initialize_apis_for_environment and
\* process_all_assets, either of which may raise
ProcessContent ==
    /\ position = "start"
    /\ \/ position' = EntryStart
       \/ rollback_created_entries
    /\ UNCHANGED <<cliVars, httpVars, workflowVars, utilityVars, referrers, calls, faults, entry_reuse_enabled,
                   handle_duplicate_page_id, input_json, created_entries, entry_cache,
                   titles, node, nested_entry_uid, rollback_analysis, safe_to_delete,
                   protected_entries, delete_index>>

\* self.created_entries.append({'uid': ..., 'content_type': ..., 'title': ...})
Track(ref, title) ==
    Append(created_entries, [uid |-> UidOf(ref), content_type |-> ref[1], title |-> title])

\* variant: a found entry is tracked like a new one
tracked_always(ref, title, is_existing) == Track(ref, title)

\* what create_entry_with_retry leaves in created_entries when it returns an
\* entry: a new entry is appended, a found one is returned before any append
tracked(ref, title, is_existing) ==
    IF is_existing THEN created_entries ELSE Track(ref, title)

\* create_entry_with_retry with entry reuse: the title search; a found entry
\* is returned with is_existing and is not tracked
SearchEntry ==
    /\ position = "search"
    /\ LET content_type_uid == content_type_of(node)
           title == input_json[node].title
       IN \E search_result \in search_entry_by_title(content_type_uid, title) :
             /\ calls' = Append(calls, Event("search_entry_by_title", "processor",
                                             search_result.ref, search_result.kind, NoUid, NoRef))
             /\ faults' = IF search_result.kind = "raise" THEN faults + 1 ELSE faults
             /\ IF search_result.kind = "found"
                THEN /\ titles' = Put(titles, <<content_type_uid, title>>, search_result.ref)
                     /\ created_entries' = tracked(search_result.ref, title, TRUE)
                     /\ EntryProcessed(search_result.ref, TRUE)
                ELSE /\ position' = "create"
                     /\ UNCHANGED <<titles, created_entries, entry_cache, nested_entry_uid, node>>
    /\ UNCHANGED <<cliVars, httpVars, workflowVars, utilityVars, referrers, entry_reuse_enabled, handle_duplicate_page_id,
                   input_json, rollback_analysis, safe_to_delete,
                   protected_entries, delete_index>>

\* with entry reuse the new entry keeps its title and carries the migration
\* tag, so a later search for the title finds it unless an older one is found
Titled(ref, content_type_uid, title) ==
    IF entry_reuse_enabled /\ <<content_type_uid, title>> \notin DOMAIN titles
    THEN Put(titles, <<content_type_uid, title>>, ref)
    ELSE titles

\* entry_data['tags'] of an entry of the input: no list, or a list that has
\* the migration tag already
InputTags == {<<>>, <<"migrated-from-cms">>}

\* variant: the tags go to the entry store as the input has them
add_migration_tag_never(tags) == tags

\* entry_data['tags'].append('migrated-from-cms') unless it is there
add_migration_tag(tags) ==
    IF \E i \in DOMAIN tags : tags[i] = "migrated-from-cms"
    THEN tags
    ELSE Append(tags, "migrated-from-cms")

\* a create call of the processor with the tags of the entry data it sends
CreateCall(ref, resp, tags) ==
    [op |-> "create_entry", by |-> "processor", ref |-> ref, resp |-> resp,
     parent |-> NoUid, via |-> NoRef, tags |-> tags]

\* create_entry_with_retry, first attempt: the migration tag is added to the
\* entry data, then create_entry_async, then the new entry is tracked; a
\* duplicate page_id goes to the retry when HANDLE_DUPLICATE_PAGE_ID is set,
\* every other exception is raised
CreateEntry ==
    /\ position = "create"
    /\ LET content_type_uid == content_type_of(node)
           title == input_json[node].title
       IN \E create_result \in create_entry(content_type_uid), tags \in InputTags :
             /\ calls' = Append(calls, CreateCall(create_result.ref, create_result.kind,
                                                  add_migration_tag(tags)))
             /\ IF create_result.kind = "created"
                THEN /\ created_entries' = tracked(create_result.ref, title, FALSE)
                     /\ titles' = Titled(create_result.ref, content_type_uid, title)
                     /\ EntryProcessed(create_result.ref, FALSE)
                ELSE /\ IF create_result.kind = "duplicate_page_id" /\ handle_duplicate_page_id
                        THEN position' = "retry"
                        ELSE rollback_created_entries
                     /\ UNCHANGED <<created_entries, titles, entry_cache, nested_entry_uid, node>>
    /\ UNCHANGED <<cliVars, httpVars, workflowVars, utilityVars, referrers, faults, entry_reuse_enabled,
                   handle_duplicate_page_id, input_json, rollback_analysis, safe_to_delete,
                   protected_entries, delete_index>>

\* create_entry_with_retry, second attempt with a new page_id on a deep copy
\* of the entry data of the first attempt: the call of the synchronous
\* create_entry creates the entry or raises; its returned dict is awaited,
\* which raises TypeError, so the entry is not tracked and the exception is
\* raised in either case
RetryCreate ==
    /\ position = "retry"
    /\ LET content_type_uid == content_type_of(node)
           title == input_json[node].title
           retry_entry_data == calls[Len(calls)]
       IN \E create_result \in create_entry(content_type_uid) :
             /\ calls' = Append(calls, CreateCall(create_result.ref, create_result.kind,
                                                  retry_entry_data.tags))
             /\ titles' = IF create_result.kind = "created"
                          THEN Titled(create_result.ref, content_type_uid, title)
                          ELSE titles
    /\ rollback_created_entries
    /\ UNCHANGED <<cliVars, httpVars, workflowVars, utilityVars, referrers, faults, entry_reuse_enabled,
                   handle_duplicate_page_id, input_json, created_entries, entry_cache, node,
                   nested_entry_uid, rollback_analysis, safe_to_delete, protected_entries,
                   delete_index>>

\* ---------------------------------------------------------------- Rollback
CreatedRef(entry) == EntryKey(entry.content_type, entry.uid)

\* {e['uid'] for e in self.created_entries}
created_entry_uids == {created_entries[k].uid : k \in DOMAIN created_entries}

\* variant: referrers of the batch count as external
rollback_external_references_unfiltered(all_references) == all_references

\* _analyze_rollback_references: the referrers that have a uid which is not
\* the uid of a created entry
rollback_external_references(all_references) ==
    {ref \in all_references :
        ref_entry_uid(ref) # NoUid /\ ref_entry_uid(ref) \notin created_entry_uids}

RollbackVerdict(to_be_deleted, references, reason) ==
    [to_be_deleted |-> to_be_deleted, references |-> references, reason |-> reason]

\* variant: an entry whose reference query failed may be deleted
reference_check_failed_unprotected ==
    RollbackVerdict(TRUE, {}, "Reference check failed")

\* _analyze_rollback_references, handler of the query's exception
reference_check_failed ==
    RollbackVerdict(FALSE, {}, "Reference check failed")

\* _analyze_rollback_references, the verdict for one created entry
rollback_verdict(resp) ==
    IF resp.kind # "ok" THEN reference_check_failed
    ELSE LET external == rollback_external_references(resp.references)
         IN IF external # {}
            THEN RollbackVerdict(FALSE, external, "Referenced in external entries")
            ELSE RollbackVerdict(TRUE, {}, "No external references found")

\* reference_analysis.get(entry_key, {'to_be_deleted': False, 'reason': 'Unknown'})
AnalysisOf(analysis, entry) ==
    IF CreatedRef(entry) \in DOMAIN analysis
    THEN analysis[CreatedRef(entry)]
    ELSE RollbackVerdict(FALSE, {}, "Unknown")

\* variant: the loop runs from the first safe entry to the last
range_forward(n) == [k \in 1..n |-> k]

\* range(len(safe_to_delete) - 1, -1, -1), as positions 1..n of the list
range_reversed(n) == [k \in 1..n |-> n + 1 - k]

\* variant: the list is kept when the rollback returns
clear_created_entries_never == created_entries

\* self.created_entries = []
clear_created_entries == <<>>

\* rollback_created_entries, step 1: the reference query for one created
\* entry.  After the last one the entries are separated into safe and
\* protected ones in created order; with no safe entry the rollback clears
\* the list and returns.
RollbackAnalyze ==
    /\ position = "analyze"
    /\ LET entry == created_entries[Cardinality(DOMAIN rollback_analysis) + 1]
           key == CreatedRef(entry)
       IN \E resp \in GetReferencesResponses(key) :
          LET analysis == Put(rollback_analysis, key, rollback_verdict(resp))
              safe == SelectSeq(created_entries,
                                LAMBDA e : AnalysisOf(analysis, e).to_be_deleted)
              protected == SelectSeq(created_entries,
                                     LAMBDA e : ~AnalysisOf(analysis, e).to_be_deleted)
          IN /\ calls' = Append(calls, Event("get_entry_references", "rollback", key,
                                             resp.kind, NoUid, NoRef))
             /\ faults' = Fault(resp)
             /\ referrers' = IF resp.kind = "ok" THEN Put(referrers, key, resp.references)
                             ELSE referrers
             /\ rollback_analysis' = analysis
             /\ IF Cardinality(DOMAIN analysis) < Len(created_entries)
                THEN UNCHANGED <<safe_to_delete, protected_entries, position, created_entries>>
                ELSE /\ safe_to_delete' = safe
                     /\ protected_entries' = protected
                     /\ IF safe = <<>>
                        THEN /\ created_entries' = clear_created_entries
                             /\ position' = "raised"
                        ELSE /\ position' = "delete"
                             /\ UNCHANGED created_entries
    /\ UNCHANGED <<cliVars, httpVars, workflowVars, utilityVars, entry_reuse_enabled, handle_duplicate_page_id, input_json,
                   entry_cache, titles, node, nested_entry_uid, delete_index>>

\* delete_entry_async as the rollback reads it: a result with success, a
\* result without it, or an exception of the executor
RollbackDeleteOutcomes(ref) ==
    {"success"} \cup (IF faults < MaxFaults THEN {"error", "raise"} ELSE {})

\* rollback_created_entries, step 3: one iteration of the loop over
\* safe_to_delete; a failed delete and an exception are counted and the
\* loop goes on.  After the last iteration the list is cleared and
\* process_content raises again.
RollbackDelete ==
    /\ position = "delete"
    /\ LET entry == safe_to_delete[range_reversed(Len(safe_to_delete))[delete_index + 1]]
           key == CreatedRef(entry)
       IN \E outcome \in RollbackDeleteOutcomes(key) :
             /\ calls' = Append(calls, Event("delete_entry", "rollback", key, outcome,
                                             NoUid, NoRef))
             /\ faults' = IF outcome = "success" THEN faults ELSE faults + 1
    /\ delete_index' = delete_index + 1
    /\ IF delete_index + 1 = Len(safe_to_delete)
       THEN /\ created_entries' = clear_created_entries
            /\ position' = "raised"
       ELSE UNCHANGED <<created_entries, position>>
    /\ UNCHANGED <<cliVars, httpVars, workflowVars, utilityVars, referrers, entry_reuse_enabled, handle_duplicate_page_id,
                   input_json, entry_cache, titles, node, nested_entry_uid,
                   rollback_analysis, safe_to_delete, protected_entries>>

NextProcessor ==
    \/ ProcessContent
    \/ SearchEntry
    \/ CreateEntry
    \/ RetryCreate
    \/ RollbackAnalyze
    \/ RollbackDelete

SpecProcessor == InitProcessor /\ [][NextProcessor]_vars

\* ------------------------------------------------------------ command line
\* main of src/delete_entry_utility.py around one run of
\* delete_entry_recursively (SpecMain).  The flag --dry-run, the entry uid and
\* the content type of the command line are dry_run and root.

\* a line of text as its pieces: words and runs of white space
Space == " "

\* the lines an operator may type at the prompt
Lines == {<<>>, <<Space>>, <<"DELETE">>, <<Space, "DELETE", Space>>, <<"delete">>,
          <<"DELETE", Space, "DELETE">>}

\* str.strip: leading and trailing white space removed
RECURSIVE lstrip(_)
lstrip(text) ==
    IF text # <<>> /\ Head(text) = Space THEN lstrip(Tail(text)) ELSE text

RECURSIVE rstrip(_)
rstrip(text) ==
    IF text # <<>> /\ text[Len(text)] = Space
    THEN rstrip(SubSeq(text, 1, Len(text) - 1))
    ELSE text

strip(text) == rstrip(lstrip(text))

\* sys.exit(code)
sys_exit(code, at) ==
    /\ exit_code' = <<code>>
    /\ cli' = at

InitMain ==
    /\ cli = "start"
    /\ typed = <<>>
    /\ user_input = <<>>
    /\ exit_code = <<>>
    /\ NoWorkflow
    /\ NoRequest
    /\ NoProcessor
    /\ dry_run \in BOOLEAN
    /\ \E content_type_uid \in {NoUid, DefaultContentType} :
          root = EntryKey(IF content_type_uid = NoUid THEN DefaultContentType
                          ELSE content_type_uid, "u1")
    /\ store = EmptyMap
    /\ referrers = EmptyMap
    /\ iteration = EmptyMap
    /\ document = EmptyMap
    /\ first = NoRun
    /\ deleted_entries = {}
    /\ failed_deletions = EmptyMap
    /\ processed_entries = {}
    /\ would_delete_entries = {}
    /\ backed_up_entries = {}
    /\ backup_file_path = FALSE
    /\ reference_analysis = EmptyMap
    /\ referenced_entries = {}
    /\ orphaned_entries = {}
    /\ reference_analysis_completed = FALSE
    /\ phase = "idle"
    /\ stack = <<>>
    /\ backup_success = "none"
    /\ analysis_success = "none"
    /\ result = [success |-> FALSE, error |-> "none"]
    /\ calls = <<>>
    /\ returned = <<>>
    /\ faults = 0

\* main up to the prompt: --help, the number of arguments and the name of
\* the environment; a dry run goes on without a prompt
Main ==
    /\ cli = "start"
    /\ \E help, enough, valid \in BOOLEAN :
          IF help THEN sys_exit(0, "help")
          ELSE IF ~enough \/ ~valid THEN sys_exit(1, "usage")
          ELSE /\ cli' = IF dry_run THEN "initialize" ELSE "confirm"
               /\ UNCHANGED exit_code
    /\ UNCHANGED <<typed, user_input, httpVars, workflowVars, processorVars, utilityVars, referrers,
                   calls, faults>>

\* variant: every line confirms
confirmed_always(text) == TRUE

\* the run goes on unless user_input != 'DELETE'
confirmed(text) == text = <<"DELETE">>

\* the prompt of a live run: input() returns a line, or raises EOFError with
\* no line to read, which nothing catches
Prompt ==
    /\ cli = "confirm"
    /\ \/ \E line \in Lines :
             /\ typed' = <<line>>
             /\ cli' = "typed"
             /\ UNCHANGED exit_code
       \/ /\ sys_exit(1, "fatal")
          /\ UNCHANGED typed
    /\ UNCHANGED <<user_input, httpVars, workflowVars, processorVars, utilityVars, referrers, calls, faults>>

\* user_input = input().strip() and the comparison with 'DELETE'
Confirm ==
    /\ cli = "typed"
    /\ user_input' = <<strip(typed[1])>>
    /\ typed' = <<>>
    /\ IF confirmed(strip(typed[1]))
       THEN /\ cli' = "initialize"
            /\ UNCHANGED exit_code
       ELSE sys_exit(0, "cancelled")
    /\ UNCHANGED <<httpVars, workflowVars, processorVars, utilityVars, referrers, calls, faults>>

\* EntryDeletionUtility(dry_run, environment) and utility.initialize(), which
\* raises for a missing environment variable and for every exception of the
\* ContentstackAPI constructor (the one of src/lib/contentstack_api.py takes
\* five arguments and is given six)
Initialize ==
    /\ cli = "initialize"
    /\ \/ /\ cli' = "run"
          /\ phase' = "backup"
          /\ UNCHANGED exit_code
       \/ /\ sys_exit(1, "fatal")
          /\ UNCHANGED phase
    /\ UNCHANGED <<typed, user_input, httpVars, workflowVars, processorVars, inputVars, store, iteration, document,
                   deletionVars, backupVars, analysisVars, reference_analysis_completed,
                   stack, analysis_success, result, returned, referrers, calls, faults>>

\* main after delete_entry_recursively returned: the summary and
\* sys.exit(0 if result['success'] else 1); a failure result has no
\* 'duration', so printing the summary raises KeyError and the handler exits
\* with 1
Finish ==
    /\ cli = "run"
    /\ phase = "done"
    /\ IF result.success THEN sys_exit(0, "finished") ELSE sys_exit(1, "fatal")
    /\ UNCHANGED <<typed, user_input, httpVars, workflowVars, processorVars, utilityVars, referrers, calls, faults>>

NextMain ==
    \/ Main
    \/ Prompt
    \/ Confirm
    \/ Initialize
    \/ Next
    \/ Finish

SpecMain == InitMain /\ [][NextMain]_vars

\* -------------------------------------------- ContentstackAPI.delete_entry
\* One call of ContentstackAPI.delete_entry (src/lib/contentstack_api.py) down
\* to its HTTP requests (SpecGateway).

\* the status codes the store answers with
Statuses == {200, 404, 422, 500}

\* what a request of the requests library gives: a response with a status
\* code and a body that is JSON or not, or an exception raised before any
\* response (status 0)
Responses ==
    {[status |-> code, raised |-> FALSE, json |-> body] : code \in Statuses, body \in BOOLEAN}
    \cup {[status |-> 0, raised |-> TRUE, json |-> FALSE]}

\* the responses as delete_entry reads them at a request whose body it does
\* not parse
StatusResponses == {resp \in Responses : resp.raised \/ resp.json}

Request(method, target, resp) ==
    [method |-> method, target |-> target, status |-> resp.status, raised |-> resp.raised,
     json |-> resp.json]

\* the dicts delete_entry returns
Deleted == [success |-> TRUE, already_deleted |-> FALSE, protected |-> FALSE]
AlreadyDeleted == [success |-> TRUE, already_deleted |-> TRUE, protected |-> FALSE]
Protected == [success |-> FALSE, already_deleted |-> FALSE, protected |-> TRUE]
Failed == [success |-> FALSE, already_deleted |-> FALSE, protected |-> FALSE]

\* response.raise_for_status()
raise_for_status(resp) == resp.status >= 400

\* no deletion utility takes part
NoUtility ==
    /\ dry_run = FALSE
    /\ root = RefA
    /\ store = EmptyMap
    /\ referrers = EmptyMap
    /\ iteration = EmptyMap
    /\ document = EmptyMap
    /\ first = NoRun
    /\ deleted_entries = {}
    /\ failed_deletions = EmptyMap
    /\ processed_entries = {}
    /\ would_delete_entries = {}
    /\ backed_up_entries = {}
    /\ backup_file_path = FALSE
    /\ reference_analysis = EmptyMap
    /\ referenced_entries = {}
    /\ orphaned_entries = {}
    /\ reference_analysis_completed = FALSE
    /\ phase = "idle"
    /\ stack = <<>>
    /\ backup_success = "none"
    /\ analysis_success = "none"
    /\ result = [success |-> FALSE, error |-> "none"]
    /\ calls = <<>>
    /\ returned = <<>>
    /\ faults = 0

InitGateway ==
    /\ NoMain
    /\ NoWorkflow
    /\ NoProcessor
    /\ NoUtility
    /\ api = "delete"
    /\ requests = <<>>
    /\ delete_result = EmptyMap

\* return of delete_entry
api_return(value) ==
    /\ delete_result' = value
    /\ api' = "returned"

\* the first DELETE of the entry and the handlers of its exceptions: 422
\* starts the unpublish, 404 is a success, every other HTTP error and every
\* other exception is a failure
FirstDelete ==
    /\ api = "delete"
    /\ \E resp \in StatusResponses :
          /\ requests' = Append(requests, Request("DELETE", "entry", resp))
          /\ IF resp.raised THEN api_return(Failed)
             ELSE IF ~raise_for_status(resp) THEN api_return(Deleted)
             ELSE IF resp.status = 422
                  THEN /\ api' = "get"
                       /\ UNCHANGED delete_result
             ELSE IF resp.status = 404 THEN api_return(AlreadyDeleted)
             ELSE api_return(Failed)
    /\ UNCHANGED <<cliVars, workflowVars, processorVars, utilityVars, referrers,
                   calls, faults>>

\* step 1, first half: the GET of the entry, whose body is parsed; an
\* exception of the request or of the parsing skips the unpublish request
GetBeforeUnpublish ==
    /\ api = "get"
    /\ \E resp \in Responses :
          /\ requests' = Append(requests, Request("GET", "entry", resp))
          /\ api' = IF resp.raised \/ ~resp.json THEN "workflow" ELSE "unpublish"
    /\ UNCHANGED <<delete_result, cliVars, workflowVars, processorVars, utilityVars, referrers,
                   calls, faults>>

\* step 1, second half: the POST to .../unpublish; its status is only
\* printed and its exception is caught
Unpublish ==
    /\ api = "unpublish"
    /\ \E resp \in StatusResponses :
          requests' = Append(requests, Request("POST", "unpublish", resp))
    /\ api' = "workflow"
    /\ UNCHANGED <<delete_result, cliVars, workflowVars, processorVars, utilityVars, referrers,
                   calls, faults>>

\* step 2: the DELETE of .../workflow; its exception is caught
WorkflowRemoval ==
    /\ api = "workflow"
    /\ \E resp \in StatusResponses :
          requests' = Append(requests, Request("DELETE", "workflow", resp))
    /\ api' = "retry"
    /\ UNCHANGED <<delete_result, cliVars, workflowVars, processorVars, utilityVars, referrers,
                   calls, faults>>

\* the result of a retry that failed and is not taken for a deletion
retry_failed == Protected

\* step 3: the second DELETE of the entry.  Its exception is a success when
\* it carries a 404 response or when its text, which holds the URL with the
\* uid of the entry, mentions '404' or 'not found'; otherwise the entry is
\* reported protected
RetryDelete ==
    /\ api = "retry"
    /\ \E resp \in StatusResponses, mentions_404 \in BOOLEAN :
          /\ requests' = Append(requests, Request("DELETE", "entry", resp))
          /\ IF ~resp.raised /\ ~raise_for_status(resp) THEN api_return(Deleted)
             ELSE IF resp.status = 404 \/ mentions_404 THEN api_return(AlreadyDeleted)
             ELSE api_return(retry_failed)
    /\ UNCHANGED <<cliVars, workflowVars, processorVars, utilityVars, referrers,
                   calls, faults>>

NextGateway ==
    \/ FirstDelete
    \/ GetBeforeUnpublish
    \/ Unpublish
    \/ WorkflowRemoval
    \/ RetryDelete

SpecGateway == InitGateway /\ [][NextGateway]_vars

\* ------------------------------------------- Backup Recorder, expanded
\* The backup of delete_entry_recursively with the expansion JSONCleanup
\* makes of the fetched body: every reference found in it is fetched and the
\* fetched body expanded in turn.  A frame of the stack is one body under
\* expansion, its todo the references of the body not yet met.

\* the depth at which Python raises RecursionError, scaled to the bounded
\* store: the number of bodies under expansion at once
RecursionLimit == 3

\* the references _process_object meets in a fetched body, in the order of
\* the body; a response without an entry has none
body_references(ref, resp) == process_nested_entries(ref, resp)

\* one body under expansion
Cleanup(ref, order) == [Frame("cleanup", ref, NoUid, order) EXCEPT !.todo = order, !.pc = "items"]

\* backup_entry_recursively: the fetch of the root and the start of
\* cleanup_json on its body
BackupFetch ==
    /\ phase = "backup"
    /\ stack = <<>>
    /\ \E resp \in GetEntryResponses(root) :
          /\ calls' = Append(calls, Event("get_entry", "backup", root, resp.kind, NoUid, NoRef))
          /\ store' = Observe(root, resp)
          /\ faults' = Fault(resp)
          /\ IF resp.kind = "raise"
             THEN /\ backup_success' = "false"
                  /\ phase' = "analysis"
                  /\ UNCHANGED <<stack, document>>
             ELSE /\ \E order \in body_references(root, resp) :
                        /\ stack' = <<Cleanup(root, order)>>
                        /\ document' = IF resp.kind = "ok" THEN Put(document, root, order)
                                       ELSE document
                  /\ UNCHANGED <<backup_success, phase>>
    /\ UNCHANGED <<cliVars, httpVars, workflowVars, processorVars, inputVars, iteration, referrers,
                   deletionVars, analysisVars, backed_up_entries, backup_file_path,
                   reference_analysis_completed, analysis_success, result, returned>>

\* _process_object for an object that has _content_type_uid and uid: the
\* entry is fetched and its body expanded, whether or not it is under
\* expansion already.  An exception of the fetch, a response without an entry
\* and the RecursionError of a descent too deep end in the handler, after
\* which the object is cleaned as it is.
CleanupReference ==
    /\ phase = "backup"
    /\ stack # <<>>
    /\ Top.fn = "cleanup"
    /\ Top.todo # <<>>
    /\ LET child == Head(Top.todo)
           rest == [Top EXCEPT !.todo = Tail(Top.todo)]
       IN IF Len(stack) >= RecursionLimit
          THEN /\ stack' = ReplaceTop(rest)
               /\ UNCHANGED <<calls, store, faults, document>>
          ELSE \E resp \in GetEntryResponses(child) :
               /\ calls' = Append(calls, Event("get_entry", "backup", child, resp.kind,
                                               NoUid, Top.ref))
               /\ store' = Observe(child, resp)
               /\ faults' = Fault(resp)
               /\ IF resp.kind = "ok"
                  THEN \E order \in body_references(child, resp) :
                          /\ stack' = Append(ReplaceTop(rest), Cleanup(child, order))
                          /\ document' = Put(document, child, order)
                  ELSE /\ stack' = ReplaceTop(rest)
                       /\ UNCHANGED document
    /\ UNCHANGED <<cliVars, httpVars, workflowVars, processorVars, inputVars, iteration, referrers,
                   deletionVars, analysisVars, backupVars, phase,
                   reference_analysis_completed, analysis_success, result, returned>>

\* _process_object returns the cleaned body; when it is the root's,
\* backup_entry_recursively stores it and delete_entry_recursively saves the
\* backup to its file
CleanupReturn ==
    /\ phase = "backup"
    /\ stack # <<>>
    /\ Top.fn = "cleanup"
    /\ Top.todo = <<>>
    /\ stack' = Pop
    /\ IF Len(stack) > 1
       THEN UNCHANGED <<backupVars, phase, result, faults>>
       ELSE \E write \in WriteOutcomes(faults) :
            /\ backup_success' = "true"
            /\ backed_up_entries' = backed_up_entries \cup {root}
            /\ IF write = "ok"
               THEN /\ backup_file_path' = TRUE
                    /\ phase' = "analysis"
                    /\ UNCHANGED <<result, faults>>
               ELSE /\ faults' = faults + 1
                    /\ phase' = "done"
                    /\ result' = [success |-> FALSE, error |-> "exception"]
                    /\ UNCHANGED backup_file_path
    /\ UNCHANGED <<cliVars, httpVars, workflowVars, processorVars, inputVars, iteration, document, store,
                   referrers, deletionVars, analysisVars, calls,
                   reference_analysis_completed, analysis_success, returned>>

NextBackup ==
    \/ BackupFetch
    \/ CleanupReference
    \/ CleanupReturn

SpecBackup == Init /\ [][NextBackup]_vars

\* -------------------------------------------------- Workflow and publish
\* ContentProcessor.complete_workflow_and_publish as the caller starts it
\* after process_content has returned: every cached entry walks the two
\* workflow stages, the nested ones before the root, and then the root is
\* published.

REVIEW_STAGE_UID == "blt17e0c5c565fa65c3"
APPROVED_STAGE_UID == "blt0915ab57da3d0af1"

\* the keys of a dict in the order of their first insertion
RECURSIVE insertion_order(_)
insertion_order(seq) ==
    IF seq = <<>> THEN <<>>
    ELSE LET before == insertion_order(SubSeq(seq, 1, Len(seq) - 1))
             last == seq[Len(seq)]
         IN IF last \in {before[k] : k \in DOMAIN before} THEN before ELSE Append(before, last)

\* result['root_entry_uid'] of process_content
root_entry_uid == UidOf(nested_entry_uid[Len(nested_entry_uid)])

\* the cached entries whose uid is not the root's, in the order of the cache
nested_entries ==
    LET NotRoot(ref) == UidOf(ref) # root_entry_uid
    IN SelectSeq(insertion_order(nested_entry_uid), NotRoot)

WorkflowEntry(ref, is_root) == [ref |-> ref, is_root |-> is_root]

\* {'uid': root_entry_uid, 'content_type': root_content_type, 'is_root': True}
root_entry == WorkflowEntry(EntryKey(DefaultContentType, root_entry_uid), TRUE)

\* update_workflow_stage_async and publish_entry_with_deep_publish_async
\* return a result or raise
WorkflowResponses == {"ok"} \cup (IF faults < MaxFaults THEN {"raise"} ELSE {})

WorkflowCall(op, ref, stage, resp) == [op |-> op, ref |-> ref, stage |-> stage, resp |-> resp]

Failure(entry, stage) ==
    [ref |-> entry.ref, phase |-> IF entry.is_root THEN "root" ELSE "nested", stage |-> stage]

\* variant: the Approved stage is asked for whatever became of the Review move
after_review_always(resp) == "approved"

\* review_stage_success: the Approved move follows a Review move that succeeded
after_review(resp) == IF resp = "ok" THEN "approved" ELSE "next"

\* variant: a failed transition ends the workflow, and nothing is published
next_entry_unless_failed(queue, failed) ==
    IF failed # <<>> THEN "raised"
    ELSE IF Tail(queue) = <<>> THEN "publish" ELSE "review"

\* the loop goes on with the next entry, the root after the nested ones, and
\* after the root comes the publish call, whatever has failed
next_entry(queue, failed) == IF Tail(queue) = <<>> THEN "publish" ELSE "review"

\* complete_workflow_and_publish up to the first transition
StartWorkflow ==
    /\ position = "returned"
    /\ workflow = "idle"
    /\ workflow' = "review"
    /\ workflow_queue' =
           [k \in 1..Len(nested_entries) |-> WorkflowEntry(nested_entries[k], FALSE)]
           \o <<root_entry>>
    /\ UNCHANGED <<cliVars, httpVars, processorVars, utilityVars, referrers, calls, faults,
                   failed_entries, processed_count, workflow_calls>>

\* step 1 for the entry at hand: the move to the Review stage
ReviewStage ==
    /\ workflow = "review"
    /\ LET entry == Head(workflow_queue)
       IN \E resp \in WorkflowResponses :
          /\ workflow_calls' = Append(workflow_calls,
                                      WorkflowCall("update_workflow_stage", entry.ref,
                                                   REVIEW_STAGE_UID, resp))
          /\ faults' = IF resp = "ok" THEN faults ELSE faults + 1
          /\ IF after_review(resp) = "approved"
             THEN /\ workflow' = "approved"
                  /\ failed_entries' = IF resp = "ok" THEN failed_entries
                                       ELSE Append(failed_entries, Failure(entry, "review"))
                  /\ UNCHANGED workflow_queue
             ELSE /\ failed_entries' = Append(failed_entries, Failure(entry, "review"))
                  /\ workflow' = next_entry(workflow_queue, failed_entries')
                  /\ workflow_queue' = Tail(workflow_queue)
    /\ UNCHANGED <<cliVars, httpVars, processorVars, utilityVars, referrers, calls,
                   processed_count>>

\* step 2 for the entry at hand: the move to the Approved stage
ApprovedStage ==
    /\ workflow = "approved"
    /\ LET entry == Head(workflow_queue)
       IN \E resp \in WorkflowResponses :
          /\ workflow_calls' = Append(workflow_calls,
                                      WorkflowCall("update_workflow_stage", entry.ref,
                                                   APPROVED_STAGE_UID, resp))
          /\ faults' = IF resp = "ok" THEN faults ELSE faults + 1
          /\ IF resp = "ok"
             THEN /\ processed_count' = processed_count + 1
                  /\ UNCHANGED failed_entries
             ELSE /\ failed_entries' = Append(failed_entries, Failure(entry, "approved"))
                  /\ UNCHANGED processed_count
          /\ workflow' = next_entry(workflow_queue, failed_entries')
          /\ workflow_queue' = Tail(workflow_queue)
    /\ UNCHANGED <<cliVars, httpVars, processorVars, utilityVars, referrers, calls>>

\* publish_root_entry_with_deep_publish and the rest of
\* complete_workflow_and_publish: an exception of the publish call, or a
\* result without success, is raised again; the cache flush that follows a
\* publication never raises
Publish ==
    /\ workflow = "publish"
    /\ \E resp \in WorkflowResponses \cup {"no_success"} :
          /\ workflow_calls' = Append(workflow_calls,
                                      WorkflowCall("publish_entry_with_deep_publish",
                                                   root_entry.ref, "", resp))
          /\ faults' = IF resp = "raise" THEN faults + 1 ELSE faults
          /\ workflow' = IF resp = "ok" THEN "done" ELSE "raised"
    /\ UNCHANGED <<cliVars, httpVars, processorVars, utilityVars, referrers, calls,
                   workflow_queue, failed_entries, processed_count>>

NextWorkflow ==
    \/ NextProcessor
    \/ StartWorkflow
    \/ ReviewStage
    \/ ApprovedStage
    \/ Publish

SpecWorkflow == InitProcessor /\ [][NextWorkflow]_vars

TypeOK ==
    /\ dry_run \in BOOLEAN
    /\ root \in Refs
    /\ DOMAIN store \subseteq Refs
    /\ DOMAIN referrers \subseteq NewRefs
    /\ deleted_entries \subseteq Refs
    /\ processed_entries \subseteq Refs
    /\ would_delete_entries \subseteq Refs
    /\ DOMAIN failed_deletions \subseteq Refs
    /\ DOMAIN reference_analysis \subseteq Refs
    /\ phase \in {"idle", "backup", "analysis", "walking", "deleting", "done"}
    /\ faults \in -1..MaxFaults
    /\ EdgesUsed <= MaxEdges
    /\ position \in {"idle", "start", "search", "create", "retry", "analyze", "delete",
                     "returned", "raised"}
    /\ KnownRefs \subseteq NewRefs
    /\ Len(created_entries) <= Len(input_json)
    /\ DOMAIN rollback_analysis \subseteq NewRefs
    /\ delete_index \in 0..Len(safe_to_delete)
    /\ cli \in {"idle", "start", "confirm", "typed", "initialize", "run", "help", "usage",
                "cancelled", "fatal", "finished"}
    /\ typed \in {<<>>} \cup {<<line>> : line \in Lines}
    /\ user_input \in {<<>>} \cup {<<strip(line)>> : line \in Lines}
    /\ exit_code \in {<<>>, <<0>>, <<1>>}
    /\ api \in {"idle", "delete", "get", "unpublish", "workflow", "retry", "returned"}
    /\ Len(requests) <= 5
    /\ workflow \in {"idle", "review", "approved", "publish", "done", "raised"}
    /\ Len(workflow_queue) <= Len(input_json) + 1
    /\ Len(failed_entries) <= Len(workflow_calls)
    /\ processed_count <= Len(workflow_calls)
    /\ Len(workflow_calls) <= 2 * Len(input_json) + 3
    /\ delete_result \in {EmptyMap, Deleted, AlreadyDeleted, Protected, Failed}

\* =================================================================== claims
IsDelete(e) == e.op = "delete_entry"
DeleteCalls == SelectSeq(calls, IsDelete)
DeleteRefs == [i \in 1..Len(DeleteCalls) |-> DeleteCalls[i].ref]
Range(seq) == {seq[i] : i \in 1..Len(seq)}
DirectReasons == {"Entry not found", "Missing migrated-from-cms tag",
                  "Referenced in other entries", "Analysis error: " \o str_error}

\* C1: a gateway delete call is issued for an EntryRef only if the reference
\* analysis completed and that EntryRef has a recorded verdict with
\* to_be_deleted = true.
C1_DeleteOnlyWithVerdict ==
    \A i \in 1..Len(calls) :
        calls[i].op = "delete_entry" =>
            /\ reference_analysis_completed
            /\ calls[i].ref \in DOMAIN reference_analysis
            /\ reference_analysis[calls[i].ref].to_be_deleted

\* a run that deleted one entry and met a protected one in the deletion phase
C1_Witness ==
    /\ \E i \in 1..Len(calls) : calls[i].op = "delete_entry"
    /\ \E j \in 1..Len(returned) : returned[j].outcome = "protected"

\* C2: if the analysis phase returns False or leaves
\* reference_analysis_completed false, delete_entry_recursively returns
\* success = false with error 'Reference analysis failed' and no gateway
\* delete call is issued.
C2_FailClosed ==
    (analysis_success = "false"
        \/ (analysis_success # "none" /\ ~reference_analysis_completed))
    => /\ phase = "done"
       /\ result = [success |-> FALSE, error |-> "Reference analysis failed"]
       /\ DeleteCalls = <<>>
       /\ \A i \in 1..Len(calls) : calls[i].by # "deletion"

\* the analysis failed after a backup that succeeded
C2_Witness ==
    /\ analysis_success = "false"
    /\ backup_success = "true"
    /\ phase = "done"

C4_MarkerGate ==
    \A k \in DOMAIN reference_analysis :
        reference_analysis[k].to_be_deleted => (k \in DOMAIN store /\ store[k].tags)

\* an entry without the tag was analysed and is protected for that reason
C4_Witness ==
    \E k \in DOMAIN reference_analysis :
        /\ k \in DOMAIN store
        /\ ~store[k].tags
        /\ reference_analysis[k].reason = "Missing migrated-from-cms tag"
        /\ ~reference_analysis[k].to_be_deleted

\* the reference queries that returned a list naming the traversal parent only
ParentOnlyQueries ==
    {i \in 1..Len(calls) :
        /\ calls[i].op = "get_entry_references"
        /\ calls[i].resp = "ok"
        /\ calls[i].via # NoRef
        /\ referrers[calls[i].ref] = {calls[i].via}}

\* C5: if entry B carries the migration marker and its only referrer is its
\* traversal parent A, analyze_entry_references(B, parent = A) reports zero
\* external references and records to_be_deleted = true for B.
C5_ParentExcluded ==
    \A i \in ParentOnlyQueries :
        LET b == calls[i].ref
        IN /\ calls[i].parent = UidOf(calls[i].via)
           /\ store[b].tags
           /\ b \in DOMAIN reference_analysis
           /\ reference_analysis[b].to_be_deleted
           /\ reference_analysis[b].references = {}
           /\ b \in orphaned_entries

\* a nested entry whose only referrer is the parent it was reached through
C5_Witness == ParentOnlyQueries # {}

\* the walk of a protected root is over
RootProtected ==
    /\ analysis_success = "true"
    /\ root \in DOMAIN reference_analysis
    /\ ~reference_analysis[root].to_be_deleted

InheritsFromRoot(c) ==
    /\ c \in DOMAIN reference_analysis
    /\ ~reference_analysis[c].to_be_deleted
    /\ reference_analysis[c].reason = "Inherited protection from parent"
    /\ reference_analysis[c].from = root
    /\ \A i \in 1..Len(calls) : calls[i].by = "analysis" => calls[i].ref # c

\* C6 as stated: if the root R is analysed as protected, every EntryRef nested
\* in R's payload has a verdict with to_be_deleted = false citing inherited
\* protection from R, and the walk made no reference query and no fetch for it.
C6_AsStated ==
    RootProtected => \A c \in find_nested_entries(store[root].payload) : InheritsFromRoot(c)

\* C6 amended: the same for every nested EntryRef other than R itself; a
\* reference of R to itself keeps the verdict R was given.
C6_InheritedProtection ==
    RootProtected =>
        /\ \A c \in find_nested_entries(store[root].payload) \ {root} : InheritsFromRoot(c)
        /\ reference_analysis[root].reason \in DirectReasons

\* a protected root with a nested entry
C6_Witness ==
    /\ RootProtected
    /\ find_nested_entries(store[root].payload) \ {root} # {}

\* the three entries form the chain RefA -> RefB -> RefC, all to be deleted
IsChain ==
    /\ root = RefA
    /\ DOMAIN store = Refs
    /\ store[RefA].payload = {RefB}
    /\ store[RefB].payload = {RefC}
    /\ store[RefC].payload = {}
    /\ \A k \in Refs : k \in DOMAIN reference_analysis /\ reference_analysis[k].to_be_deleted

ChainOrder == {<<RefC, RefB>>, <<RefC, RefA>>, <<RefB, RefA>>}

\* C7: when a node's gateway delete call is issued, a call of
\* recursively_delete_entry has returned for every nested EntryRef the
\* executor found in the node's fetched payload; on the chain A -> B -> C the
\* delete calls occur in the order C, B, A, and the root's delete call is the
\* last gateway call of the run.
C7_ChildrenFirst ==
    [][/\ (Len(calls') > Len(calls) /\ calls'[Len(calls')].op = "delete_entry")
          => \A c \in Range(Top.data) :
                \E j \in 1..Len(returned) :
                    returned[j].caller = Top.ref /\ returned[j].ref = c
       /\ (IsChain' =>
              \A i, j \in 1..Len(DeleteRefs)' :
                  i < j => <<DeleteRefs'[i], DeleteRefs'[j]>> \in ChainOrder)
       /\ \A i \in 1..Len(calls') :
              (calls'[i].op = "delete_entry" /\ calls'[i].ref = root') => i = Len(calls')
      ]_vars

\* the chain was deleted completely
C7_Witness ==
    /\ IsChain
    /\ DeleteRefs = <<RefC, RefB, RefA>>

\* C8: a verdict recorded in reference_analysis is never changed or replaced
\* by a later step of the run.
C8_FirstWriterWins ==
    [][\A k \in DOMAIN reference_analysis :
           k \in DOMAIN reference_analysis' /\ reference_analysis'[k] = reference_analysis[k]
      ]_vars

\* a protected entry that was analysed directly nests an entry whose verdict
\* stems from elsewhere, and the walk is over
C8_Witness ==
    /\ analysis_success = "true"
    /\ \E p \in DOMAIN reference_analysis, k \in DOMAIN reference_analysis :
          /\ ~reference_analysis[p].to_be_deleted
          /\ reference_analysis[p].reason \in DirectReasons
          /\ p \in DOMAIN store
          /\ k \in find_nested_entries(store[p].payload)
          /\ reference_analysis[k].from # p

\* C9: the backup of the root is attempted first and is over, with success or
\* failure, before the first verdict is recorded, before any analysis or
\* deletion call, and also in runs whose analysis fails.
C9_BackupFirst ==
    (phase # "backup" \/ DOMAIN reference_analysis # {} \/ analysis_success # "none"
        \/ \E i \in 1..Len(calls) : calls[i].by # "backup")
    => /\ backup_success \in {"true", "false"}
       /\ Len(calls) >= 1
       /\ calls[1] = Event("get_entry", "backup", root, calls[1].resp, NoUid, NoRef)
       /\ \A i \in 2..Len(calls) : calls[i].by # "backup"
       /\ backup_success = "true" <=> root \in backed_up_entries

\* the backup failed, and the run went on to record verdicts and to delete
C9_Witness ==
    /\ backup_success = "false"
    /\ DOMAIN reference_analysis # {}
    /\ DeleteCalls # <<>>

\* the sets a run ends with are those of the earlier run
SameOutcome ==
    /\ deleted_entries = first.deleted_entries
    /\ would_delete_entries = first.would_delete_entries
    /\ failed_deletions = first.failed_deletions

\* C10: for identical gateway responses to the analysis and deletion calls, a
\* run whose backup fails and a run whose backup succeeds end with the same
\* deleted_entries, would_delete_entries and failed_deletions.
C10_BackupIndependence ==
    (first.done /\ phase = "done") => SameOutcome

\* the same for two runs neither of which was ended by save_backup_to_file
C10_WhenBackupFileWritten ==
    (first.done /\ phase = "done"
        /\ result.error # "exception" /\ first.result.error # "exception")
    => (SameOutcome /\ result = first.result)

\* two finished runs that differ in the backup and deleted the same entries
C10_Witness ==
    /\ first.done
    /\ phase = "done"
    /\ backup_success # first.backup_success
    /\ deleted_entries # {}
    /\ SameOutcome

\* ------------------------------------------------- claims on the rollback
IsRollbackDelete(e) == e.op = "delete_entry" /\ e.by = "rollback"
RollbackDeleteCalls == SelectSeq(calls, IsRollbackDelete)
RollbackDeleted == {RollbackDeleteCalls[k].ref : k \in DOMAIN RollbackDeleteCalls}

\* the created batch of a rollback that has analysed its entries
Batch == DOMAIN rollback_analysis

\* rollback_created_entries has returned after analysing a batch
RollbackReturned == position = "raised" /\ Batch # {}

\* the input entry for which ref was created is nested in the one of parent
NestedIn(ref, parent) ==
    \E k \in DOMAIN nested_entry_uid :
        /\ nested_entry_uid[k] = ref
        /\ input_json[k].parent \in DOMAIN nested_entry_uid
        /\ nested_entry_uid[input_json[k].parent] = parent

\* the gateway listed the referrers of every entry of the batch, and every
\* referrer it listed is an entry of the batch
OnlyBatchReferrers ==
    \A ref \in Batch : ref \in DOMAIN referrers /\ referrers[ref] \subseteq Batch

\* C11: when the rollback has returned for a batch in which an entry X is
\* listed as a referrer of an entry Y and no entry outside the batch is
\* listed as a referrer of any entry of the batch, a delete call was issued
\* for every entry of the batch, X and Y included.
C11_BatchExclusion ==
    (/\ RollbackReturned
     /\ OnlyBatchReferrers
     /\ \E X, Y \in Batch : X # Y /\ X \in referrers[Y])
    => Batch \subseteq RollbackDeleted

\* a batch of a parent X and its nested entry Y, X the only referrer of Y,
\* both deleted
C11_Witness ==
    /\ RollbackReturned
    /\ OnlyBatchReferrers
    /\ \E X, Y \in Batch :
          /\ Batch = {X, Y}
          /\ X # Y
          /\ NestedIn(Y, X)
          /\ referrers[Y] = {X}
          /\ referrers[X] = {}
          /\ RollbackDeleted = {X, Y}

\* the referrers the gateway listed for ref that are no entries of the batch
OutsideReferrers(ref) ==
    IF ref \in DOMAIN referrers THEN referrers[ref] \ Batch ELSE {}

\* C12: the rollback issues no delete call for a created entry for which the
\* gateway listed a referrer that is not an entry of the created batch.
C12_NoDeleteWhenExternallyReferenced ==
    \A ref \in RollbackDeleted : OutsideReferrers(ref) = {}

\* the same with the referrers told apart by their uid alone, as the
\* descriptor is read: no delete call for a created entry with a listed
\* referrer whose uid is the uid of no created entry
C12_ByReferrerUid ==
    \A ref \in RollbackDeleted :
        \A r \in OutsideReferrers(ref) :
            \E e \in Batch : UidOf(e) = ref_entry_uid(r)

\* the position at which ref was appended to created_entries, 0 if it was not
CreatedAt(ref) ==
    IF \E k \in DOMAIN created_entries : CreatedRef(created_entries[k]) = ref
    THEN CHOOSE k \in DOMAIN created_entries : CreatedRef(created_entries[k]) = ref
    ELSE 0

\* C13: every delete call of the rollback is for an entry that was appended
\* to created_entries before each entry the rollback has issued a delete
\* call for already: the delete calls are in the reverse of the order of
\* created_entries.
C13_ReverseCreationOrder ==
    [][(/\ Len(calls') = Len(calls) + 1
        /\ IsRollbackDelete(calls'[Len(calls')]))
       => \A m \in DOMAIN RollbackDeleteCalls :
              CreatedAt(RollbackDeleteCalls[m].ref) > CreatedAt(calls'[Len(calls')].ref)]_vars

\* a rollback that deleted two entries, the one created later first
C13_Witness ==
    /\ position = "raised"
    /\ Len(safe_to_delete) = 2
    /\ Len(RollbackDeleteCalls) = 2
    /\ RollbackDeleteCalls[1].ref = CreatedRef(safe_to_delete[2])
    /\ RollbackDeleteCalls[2].ref = CreatedRef(safe_to_delete[1])

\* C14: of a created nested entry and the created parent entry that
\* references it, both deleted by the rollback, the nested entry has the
\* earlier delete call.
C14_ChildBeforeParent ==
    \A m, n \in DOMAIN RollbackDeleteCalls :
        (m # n /\ NestedIn(RollbackDeleteCalls[m].ref, RollbackDeleteCalls[n].ref)) => m < n

\* the created entries whose reference query raised during the rollback
QueryRaised ==
    {calls[k].ref : k \in {n \in DOMAIN calls :
                              /\ calls[n].op = "get_entry_references"
                              /\ calls[n].by = "rollback"
                              /\ calls[n].resp = "raise"}}

\* the created entries the rollback has queried the references of
Queried ==
    {calls[k].ref : k \in {n \in DOMAIN calls :
                              /\ calls[n].op = "get_entry_references"
                              /\ calls[n].by = "rollback"}}

ProtectedRefs == {CreatedRef(protected_entries[k]) : k \in DOMAIN protected_entries}
SafeRefs == {CreatedRef(safe_to_delete[k]) : k \in DOMAIN safe_to_delete}

\* C15: a created entry whose reference query raised has a verdict with
\* to_be_deleted = false and no delete call; when the rollback has returned
\* it is among the protected entries, every created entry was queried, and
\* every entry whose query answered without an external referrer has its
\* delete call.
C15_FailedQueryProtects ==
    /\ \A ref \in QueryRaised :
          /\ ref \in Batch
          /\ ~rollback_analysis[ref].to_be_deleted
          /\ ref \notin RollbackDeleted
    /\ RollbackReturned =>
          /\ QueryRaised \subseteq ProtectedRefs
          /\ Queried = Batch
          /\ Batch = ProtectedRefs \cup SafeRefs
          /\ \A ref \in Batch \ QueryRaised :
                rollback_analysis[ref].to_be_deleted => ref \in RollbackDeleted

\* a returned rollback of two entries: the query of the first raised, the
\* second was analysed after it and deleted
C15_Witness ==
    /\ RollbackReturned
    /\ Cardinality(Batch) = 2
    /\ Cardinality(QueryRaised) = 1
    /\ \E k \in DOMAIN calls :
          /\ calls[k].op = "get_entry_references" /\ calls[k].resp = "raise"
          /\ k < Len(calls)
          /\ calls[k + 1].op = "get_entry_references" /\ calls[k + 1].resp = "ok"
    /\ Cardinality(RollbackDeleted) = 1
    /\ RollbackDeleted \cap QueryRaised = {}

\* C16: when rollback_created_entries has returned, created_entries is empty.
C16_ClearedOnReturn ==
    position = "raised" => created_entries = <<>>

\* a returned rollback with one entry protected by an outside referrer and
\* one whose delete call did not succeed
C16_Witness ==
    /\ RollbackReturned
    /\ created_entries = <<>>
    /\ Len(protected_entries) = 1
    /\ Len(safe_to_delete) = 1
    /\ \E k \in DOMAIN RollbackDeleteCalls : RollbackDeleteCalls[k].resp \in {"error", "raise"}

\* the entries create_entry_with_retry returned as found by the title search
Reused ==
    {calls[k].ref : k \in {n \in DOMAIN calls :
                              /\ calls[n].op = "search_entry_by_title"
                              /\ calls[n].resp = "found"}}

\* the entries the gateway created in this run
CreatedByRun ==
    {calls[k].ref : k \in {n \in DOMAIN calls :
                              /\ calls[n].op = "create_entry"
                              /\ calls[n].resp = "created"}}

TrackedRefs == {CreatedRef(created_entries[k]) : k \in DOMAIN created_entries}

\* C17 as stated: an entry that create_entry_with_retry reused is not in
\* created_entries and has no delete call of the rollback.
C17_AsStated ==
    \A ref \in Reused : ref \notin TrackedRefs /\ ref \notin RollbackDeleted

\* C17: the rollback issues delete calls only for entries this run created,
\* and an entry that create_entry_with_retry reused and that this run did not
\* create itself is not in created_entries and has no delete call of the
\* rollback.
C17_OnlyCreatedDeleted ==
    /\ TrackedRefs \subseteq CreatedByRun
    /\ RollbackDeleted \subseteq CreatedByRun
    /\ \A ref \in Reused \ CreatedByRun :
          ref \notin TrackedRefs /\ ref \notin RollbackDeleted

\* a returned rollback that deleted a created entry and left alone an entry
\* the run had reused
C17_Witness ==
    /\ RollbackReturned
    /\ RollbackDeleted # {}
    /\ Reused \ CreatedByRun # {}
    /\ \A ref \in Reused : entry_cache[ref].is_existing

\* ------------------------------------------- claims on the deletion utility
\* the entries that passed the safety gate of recursively_delete_entry: the
\* Deletion Executor fetches an entry right after the gate
PassedGate ==
    {calls[k].ref : k \in {n \in DOMAIN calls :
                              calls[n].op = "get_entry" /\ calls[n].by = "deletion"}}

\* the entries whose fetch by the Deletion Executor raised
FetchRaised ==
    {calls[k].ref : k \in {n \in DOMAIN calls :
                              /\ calls[n].op = "get_entry"
                              /\ calls[n].by = "deletion"
                              /\ calls[n].resp = "raise"}}

\* a tagged root R without referrers whose only nested entry C is tagged,
\* has no nested entries and has R as its only referrer
RootWithOneChild ==
    \E C \in Refs \ {root} :
        /\ {root, C} \subseteq DOMAIN store
        /\ {root, C} \subseteq DOMAIN referrers
        /\ store[root] = [tags |-> TRUE, payload |-> {C}]
        /\ store[C] = [tags |-> TRUE, payload |-> {}]
        /\ referrers[root] = {}
        /\ referrers[C] = {root}

RootFetches == {n \in DOMAIN calls : calls[n].op = "get_entry" /\ calls[n].ref = root}

\* the k-th fetch of the root, for k fetches made at least
RootFetch(k) ==
    calls[CHOOSE n \in RootFetches : Cardinality({m \in RootFetches : m <= n}) = k]

\* the root is tagged and no referrer of it is known, its first two fetches
\* succeeded and its third fetch failed with an exception (which
\* fetch_entry_details turns into None)
ThirdFetchThrows ==
    /\ Cardinality(RootFetches) >= 3
    /\ RootFetch(1).resp = "ok"
    /\ RootFetch(2).resp = "ok"
    /\ RootFetch(3).resp \in {"raise", "none"}
    /\ store[root].tags
    /\ root \in DOMAIN referrers => referrers[root] = {}

OpeningFetchFailed ==
    \E n \in DOMAIN calls :
        /\ calls[n].by = "analysis"
        /\ \A m \in 1..(n - 1) : calls[m].by # "analysis"
        /\ calls[n].resp = "none"

FrameWeight(frame) ==
    IF frame.pc = "enter" THEN 4
    ELSE IF frame.pc = "references" THEN 3
    ELSE IF frame.pc = "scan"
         THEN IF reference_analysis[frame.ref].to_be_deleted
              THEN 2 + 5 * Cardinality(Refs)
              ELSE 2
    ELSE 1 + 5 * Len(frame.todo)

RECURSIVE StackWeight(_)
StackWeight(frames) ==
    IF frames = <<>> THEN 0
    ELSE FrameWeight(Head(frames)) + StackWeight(Tail(frames))

\* the work a first visit of an entry can add
VisitWeight == 5 * Cardinality(Refs) + 5

\* the entries the walk has no verdict for / the executor has not visited
Unanalysed == Refs \ DOMAIN reference_analysis
Unprocessed == Refs \ processed_entries

DeletingMeasure == 1 + VisitWeight * Cardinality(Unprocessed) + StackWeight(stack)
WalkingBase == VisitWeight * Cardinality(Refs) + 6
WalkingMeasure == WalkingBase + VisitWeight * Cardinality(Unanalysed) + StackWeight(stack)

\* a bound on the number of steps the run has left
Measure ==
    IF phase = "done" THEN 0
    ELSE IF phase = "deleting" THEN DeletingMeasure
    ELSE IF phase = "walking" THEN WalkingMeasure
    ELSE IF phase = "analysis" THEN WalkingBase + VisitWeight * Cardinality(Refs) + 5
    ELSE WalkingBase + VisitWeight * Cardinality(Refs) + 6

\* the entries the Hierarchy Walker descended into, one per verdict request
IsDescent(e) == e.op = "get_entry" /\ e.by = "analysis" /\ e.parent # NoUid
Descents == SelectSeq(calls, IsDescent)

\* the entries the Deletion Executor descended into
IsVisit(e) == e.op = "get_entry" /\ e.by = "deletion"
Visits == SelectSeq(calls, IsVisit)

\* the gateway call of this step, if it is a descent, is the first descent of
\* its kind into that EntryRef
FirstDescent ==
    Len(calls') > Len(calls) =>
        LET e == calls'[Len(calls')]
        IN \A k \in DOMAIN calls :
              \/ calls[k].ref # e.ref
              \/ ~((IsDescent(e) /\ IsDescent(calls[k])) \/ (IsVisit(e) /\ IsVisit(calls[k])))

C21_ExitCodes ==
    /\ cli = "finished" => (result.success /\ exit_code = <<0>>)
    /\ (phase = "done" /\ ~result.success /\ exit_code # <<>>) => exit_code = <<1>>
    /\ cli \in {"usage", "fatal"} => exit_code = <<1>>
    /\ cli = "cancelled" => exit_code = <<1>>

\* the exit codes of main apart from the cancellation
C21_ExitCodesOfRuns ==
    /\ cli = "finished" => (result.success /\ exit_code = <<0>>)
    /\ (phase = "done" /\ ~result.success /\ exit_code # <<>>) => exit_code = <<1>>
    /\ cli \in {"usage", "fatal"} => exit_code = <<1>>

\* what main does on a cancellation: sys.exit(0), with no gateway call made
C21_CancellationExitsZero ==
    cli = "cancelled" => (exit_code = <<0>> /\ calls = <<>> /\ phase = "idle")

\* ------------------------------------------------------------------ C22
\* the line at the prompt is compared after white space is stripped from it,
\* and no gateway call is made before the comparison has accepted it
PromptGuards(accepted) ==
    /\ (cli = "typed" /\ ~accepted) => (cli' = "cancelled" /\ calls' = <<>>)
    /\ (calls' # <<>> /\ ~dry_run') => user_input' = <<<<"DELETE">>>>
    /\ cli' \in {"start", "confirm", "typed", "cancelled", "help", "usage"} => calls' = <<>>
    /\ dry_run' => (user_input' = <<>> /\ typed' = <<>>)

\* the line just typed, if there is one
Typed == IF typed = <<>> THEN <<>> ELSE typed[1]

\* C22 as stated: in non-dry-run mode the CLI makes no gateway call of any
\* kind unless the operator typed exactly 'DELETE' at the confirmation
\* prompt; in dry-run mode the run proceeds without asking for confirmation.
C22_AsStated == [][PromptGuards(Typed = <<"DELETE">>)]_vars

\* C22, amended: in non-dry-run mode the CLI makes no gateway call of any
\* kind unless the line typed at the confirmation prompt, with leading and
\* trailing white space removed, is 'DELETE'; in dry-run mode the run
\* proceeds without asking for confirmation.
C22_ConfirmedBeforeCalls == [][PromptGuards(strip(Typed) = <<"DELETE">>)]_vars

\* a confirmed live run that deleted an entry, and exited
C22_Witness ==
    /\ ~dry_run
    /\ user_input = <<<<"DELETE">>>>
    /\ \E k \in DOMAIN calls : calls[k].op = "delete_entry"
    /\ cli = "finished"

\* ------------------------------------------------------------------ C23
\* the positions in requests of the requests with a method and a target
Sent(method, target) ==
    {k \in DOMAIN requests : requests[k].method = method /\ requests[k].target = target}

LastRequest == requests[Len(requests)]

\* a 404 on the first or on the retried DELETE is a success with
\* already_deleted; any other HTTP error on the first DELETE except 422 is a
\* failure without the protected flag
StatusesReported ==
    /\ (/\ api = "returned"
        /\ ~LastRequest.raised
        /\ LastRequest.status = 404) => delete_result = AlreadyDeleted
    /\ (/\ api = "returned"
        /\ Len(requests) = 1
        /\ ~LastRequest.raised
        /\ LastRequest.status \notin {200, 404, 422}) => delete_result = Failed

\* C23: ContentstackAPI.delete_entry reports protected = true only after it
\* has attempted, in this order, an unpublish, a workflow removal and a
\* second delete; an HTTP 404 on the first delete or on the retried delete is
\* reported as success with already_deleted = true, and an HTTP error other
\* than 422/404 is reported as a failure without the protected flag.
C23_ProtectedAfterUnpublish ==
    /\ (api = "returned" /\ delete_result.protected) =>
          \E i \in Sent("POST", "unpublish"), j \in Sent("DELETE", "workflow"),
             k \in Sent("DELETE", "entry") : 1 < i /\ i < j /\ j < k
    /\ StatusesReported

\* what delete_entry does: protected is reported after a workflow removal
\* and a second delete, and after an unpublish request unless the GET that
\* comes before it raised or had no JSON body
C23_ProtectedAfterRetry ==
    /\ (api = "returned" /\ delete_result.protected) =>
          /\ \E j \in Sent("DELETE", "workflow"), k \in Sent("DELETE", "entry") :
                1 < j /\ j < k
          /\ IF requests[2].raised \/ ~requests[2].json
             THEN Sent("POST", "unpublish") = {}
             ELSE Sent("POST", "unpublish") = {3}
    /\ StatusesReported

\* ------------------------------------------------------------------ C24
\* the entries whose fetch by the executor raised or whose gateway delete
\* failed
FailedNodes ==
    {calls[k].ref : k \in {n \in DOMAIN calls :
        /\ calls[n].by = "deletion"
        /\ \/ calls[n].op = "get_entry" /\ calls[n].resp = "raise"
           \/ calls[n].op = "delete_entry" /\ calls[n].resp \in {"protected", "error"}}}

\* the gateway call made by this step, if it made one
NewCall == IF Len(calls') > Len(calls) THEN <<calls'[Len(calls')]>> ELSE <<>>

\* the entries the executor fetched and whose call has returned
Completed ==
    {returned[k].ref : k \in {n \in DOMAIN returned : returned[n].outcome = "success"}}

\* what holds of the failures met so far in every state of a run
FailureStaysLocal ==
    /\ DOMAIN failed_deletions = FailedNodes
    /\ \A ref \in Completed :
          /\ ref \in DOMAIN document => Range(document[ref]) \subseteq processed_entries
          /\ ref \in deleted_entries \cup would_delete_entries \cup DOMAIN failed_deletions
    /\ \A k \in DOMAIN returned :
          (returned[k].ref \in FailedNodes /\ returned[k].caller # NoRef /\ phase = "done")
              => returned[k].caller \in Completed
    /\ (phase = "done" /\ returned # <<>>) => (result.success /\ root \in processed_entries)

\* the step in which the call of recursively_delete_entry for a node that met
\* a failure returns: it returns to its caller, which goes on with the nested
\* references it has left
FailureReturns ==
    /\ phase = "deleting"
    /\ stack # <<>>
    /\ Len(returned') > Len(returned)
    /\ returned'[Len(returned')].ref \in FailedNodes'

\* C24: a gateway failure (protected or other error) or an exception raised
\* while fetching or deleting one node is recorded in failed_deletions for
\* that node only and does not propagate: the node's remaining siblings and
\* its ancestors are still processed, and the top-level result still has
\* success = true.
C24_FailureStaysLocal ==
    [][/\ FailureStaysLocal'
       /\ FailureReturns =>
             /\ stack' = Pop
             /\ DOMAIN failed_deletions' = DOMAIN failed_deletions \cup {Top.ref}
             /\ \A ref \in DOMAIN failed_deletions :
                   failed_deletions'[ref] = failed_deletions[ref]]_vars

\* a finished run in which the fetch of one nested entry raised, the sibling
\* visited after it was deleted and their parent was deleted after both
C24_Witness ==
    /\ phase = "done"
    /\ result.success
    /\ \E failed, sibling \in Refs :
          /\ failed # sibling
          /\ failed \in DOMAIN failed_deletions
          /\ failed_deletions[failed] = "exception"
          /\ root \in DOMAIN document
          /\ document[root] = <<failed, sibling>>
          /\ sibling \in deleted_entries
          /\ root \in deleted_entries

\* ------------------------------------------------------------------ C25
\* the gateway calls analyze_entry_references made
AnalyzerCalls == {k \in DOMAIN calls : calls[k].by = "analysis" /\ calls[k].parent # NoUid}

\* what holds of the failed calls of the analyzer in every state of a run
AnalyzerFailClosed ==
    /\ \A k \in AnalyzerCalls :
          LET e == calls[k]
          IN /\ (e.op = "get_entry" /\ e.resp = "none") =>
                   /\ e.ref \in DOMAIN reference_analysis
                   /\ ~reference_analysis[e.ref].to_be_deleted
                   /\ reference_analysis[e.ref].reason = "Entry not found"
             /\ (e.op = "get_entry_references" /\ e.resp = "raise") =>
                   /\ e.ref \in DOMAIN reference_analysis
                   /\ ~reference_analysis[e.ref].to_be_deleted
                   /\ reference_analysis[e.ref].reason = "Analysis error: " \o str_error
    /\ (AnalyzerCalls # {} /\ phase \in {"deleting", "done"}) =>
          (analysis_success = "true" /\ reference_analysis_completed)

\* C25: analyze_entry_references is fail-closed: when the entry fetch fails
\* or returns no entry, or when the reference query raises, the recorded
\* verdict has to_be_deleted = false (reason 'Entry not found' or one
\* containing the exception text) and the exception does not propagate to
\* the walker, whose analysis still completes.
C25_AnalyzerFailClosed ==
    [][/\ AnalyzerFailClosed'
       /\ \A e \in Range(NewCall) :
             (e.by = "analysis" /\ e.parent # NoUid /\ e.resp \in {"none", "raise"}) =>
                 /\ phase' = "walking"
                 /\ stack' # <<>>
                 /\ e.ref \in DOMAIN reference_analysis'
                 /\ ~reference_analysis'[e.ref].to_be_deleted]_vars

\* a finished run in which the reference query for a nested entry raised:
\* the entry is protected, the walk went on and the root was deleted
C25_Witness ==
    /\ phase = "done"
    /\ result.success
    /\ root \in deleted_entries
    /\ \E k \in AnalyzerCalls :
          /\ calls[k].op = "get_entry_references"
          /\ calls[k].resp = "raise"
          /\ calls[k].ref # root
          /\ calls[k].ref \notin deleted_entries

\* ------------------------------------------------------------------ C26
\* C26: delete_entry_recursively is two-phase: every gateway reference-query
\* call of the run is issued before the first gateway delete call, so all
\* verdicts are computed on the pre-deletion state of the store, and the
\* Executor only reads the verdict map, never writes it.
C26_TwoPhase ==
    [][/\ \A e \in Range(NewCall) :
             e.op = "get_entry_references" =>
                 /\ phase = "walking"
                 /\ \A k \in DOMAIN calls : calls[k].op # "delete_entry"
       /\ \A e \in Range(NewCall) : e.op = "delete_entry" => phase = "deleting"
       /\ phase = "deleting" => reference_analysis' = reference_analysis]_vars

\* a finished run with reference queries for two entries and two deletes
C26_Witness ==
    /\ phase = "done"
    /\ Cardinality({k \in DOMAIN calls : calls[k].op = "get_entry_references"}) >= 2
    /\ Cardinality({k \in DOMAIN calls : calls[k].op = "delete_entry"}) >= 2

\* ------------------------------------------------------------------ C27
\* the order in which the walker visits the references found in the body of
\* ref: the iteration order of the set find_nested_entries returns
WalkerOrder(ref) == iteration[Range(document[ref])]

\* C27: the Hierarchy Walker visits the children of a node in the order in
\* which their EntryRefs were discovered during the payload scan (insertion
\* order of discovery), for every payload.
C27_DiscoveryOrder ==
    \A ref \in DOMAIN document :
        Range(document[ref]) \in DOMAIN iteration => WalkerOrder(ref) = document[ref]

\* ------------------------------------------------------------------ C28
\* the external referrers of a created entry as the Reference Analyzer
\* computes them, with the created uids as the exclusion set
ExternalOfBatch(ref) == {d \in referrers[ref] : ref_entry_uid(d) \notin created_entry_uids}

\* C28: rollback analysis computes the external references of a created entry
\* exactly as the Reference Analyzer does, except that the exclusion set is
\* the ids of all created entries: a referrer counts as external iff its
\* referring-entry id is not a created entry's id, and in particular a
\* referrer descriptor from which no id can be extracted counts as external,
\* as it does in analyze_entry_references.
C28_ExternalAsAnalyzer ==
    position \in {"analyze", "delete"} =>
        \A ref \in Batch \ QueryRaised :
            /\ rollback_analysis[ref].references = ExternalOfBatch(ref)
            /\ rollback_analysis[ref].to_be_deleted <=> ExternalOfBatch(ref) = {}

\* what the rollback does: the descriptors that have an id which is not a
\* created entry's id are external, a descriptor without an id is skipped
C28_ExternalWithUid ==
    position \in {"analyze", "delete"} =>
        \A ref \in Batch \ QueryRaised :
            /\ rollback_analysis[ref].references = ExternalOfBatch(ref) \ {AnonymousRef}
            /\ rollback_analysis[ref].to_be_deleted <=> ExternalOfBatch(ref) \subseteq {AnonymousRef}

\* what analyze_entry_references does: a descriptor without an id is never
\* the traversal parent, so an entry that has one is protected
C28_AnalyzerCountsAnonymous ==
    \A k \in DOMAIN calls :
        (/\ calls[k].op = "get_entry_references"
         /\ calls[k].by = "analysis"
         /\ calls[k].resp = "ok"
         /\ AnonymousRef \in referrers[calls[k].ref])
            => /\ calls[k].ref \in DOMAIN reference_analysis
               /\ ~reference_analysis[calls[k].ref].to_be_deleted
               /\ AnonymousRef \in reference_analysis[calls[k].ref].references

\* ------------------------------------------------------------------ C29
\* the delete calls of the Executor
ExecutorDeletes == {k \in DOMAIN calls : calls[k].op = "delete_entry" /\ calls[k].by = "deletion"}

\* every delete call made so far has its entry in exactly one of the sets
DeleteResultClassified ==
    \A k \in ExecutorDeletes :
        LET ref == calls[k].ref
            outcome == calls[k].resp
        IN /\ (ref \in deleted_entries) # (ref \in DOMAIN failed_deletions)
           /\ outcome \in {"success", "already_deleted"} => ref \in deleted_entries
           /\ outcome = "protected" =>
                 /\ ref \in DOMAIN failed_deletions
                 /\ failed_deletions[ref] = "Protected entry - requires manual deletion"
           /\ outcome = "error" =>
                 /\ ref \in DOMAIN failed_deletions
                 /\ failed_deletions[ref] = "error"

\* C29: the Executor classifies each gateway delete result into exactly one
\* run-state set: success (including already_deleted) adds the EntryRef to
\* deleted_entries; protected records it in failed_deletions with reason
\* 'Protected entry - requires manual deletion'; any other failure records it
\* in failed_deletions with the gateway's error message.
C29_ClassifiesDeleteResult ==
    [][/\ DeleteResultClassified'
       /\ \A e \in Range(NewCall) :
             (e.op = "delete_entry" /\ e.by = "deletion") =>
                 /\ e.ref \notin deleted_entries \cup DOMAIN failed_deletions
                 /\ IF e.resp \in {"success", "already_deleted"}
                    THEN /\ deleted_entries' = deleted_entries \cup {e.ref}
                         /\ failed_deletions' = failed_deletions
                    ELSE /\ deleted_entries' = deleted_entries
                         /\ DOMAIN failed_deletions' = DOMAIN failed_deletions \cup {e.ref}]_vars

\* a finished run in which one entry was found already deleted, and counted,
\* and another one was deleted
C29_Witness ==
    /\ phase = "done"
    /\ \E j, k \in ExecutorDeletes :
          /\ calls[j].resp = "already_deleted"
          /\ calls[k].resp = "success"
          /\ {calls[j].ref, calls[k].ref} \subseteq deleted_entries

\* ------------------------------------------------------------------ C30
\* the bodies the Backup Recorder has under expansion, outermost first
Expanding == [k \in DOMAIN stack |-> stack[k].ref]

\* C30: the Backup Recorder's recursive expansion (JSONCleanup._process_object
\* driven by backup_entry_recursively) checks a visited guard before
\* descending and therefore terminates on every finite entry graph, including
\* one that contains a reference cycle: it never descends into an entry it is
\* expanding already.
C30_VisitedGuard ==
    phase = "backup" =>
        \A j, k \in DOMAIN Expanding : j # k => Expanding[j] # Expanding[k]

\* what ends the expansion of a cycle: the descent stops at the recursion
\* limit, and only there is a reference left unexpanded
C30_StopsAtRecursionLimit ==
    [][(phase = "backup" /\ stack # <<>> /\ Len(stack') = Len(stack)
            /\ Top.todo # <<>> /\ calls' = calls)
        => Len(stack) = RecursionLimit]_vars

\* ------------------------------------------------------------------ C31
\* the gateway calls of analyze_entry_references for ref
AnalyzerCallsFor(ref) == {k \in AnalyzerCalls : calls[k].ref = ref}

\* C31: a second call of analyze_entry_references for an EntryRef that already
\* has a verdict returns that verdict unchanged, whatever parent id is passed,
\* and issues no gateway call; hence at most one gateway reference query is
\* made per EntryRef per run.
C31_VerdictCached ==
    [][/\ \A ref \in DOMAIN reference_analysis :
             /\ ref \in DOMAIN reference_analysis'
             /\ reference_analysis'[ref] = reference_analysis[ref]
       /\ \A e \in Range(NewCall) :
             (e.by = "analysis" /\ e.parent # NoUid) =>
                 /\ e.ref \notin DOMAIN reference_analysis
                 /\ e.op = "get_entry_references" =>
                       \A k \in AnalyzerCallsFor(e.ref) : calls[k].op # "get_entry_references"]_vars

\* a finished run in which the walk came a second time to an entry that had
\* its verdict, under another parent, and the entry has its one reference query
C31_Witness ==
    /\ phase = "done"
    /\ \E j, k \in DOMAIN calls :
          /\ j < k
          /\ calls[j].by = "analysis" /\ calls[j].op = "get_entry_references"
          /\ calls[k].by = "analysis" /\ calls[k].op = "get_entry"
          /\ calls[k].parent = NoUid
          /\ calls[k].resp = "ok"
          /\ calls[k].ref = calls[j].ref
          /\ Cardinality({n \in AnalyzerCallsFor(calls[j].ref) :
                             calls[n].op = "get_entry_references"}) = 1

\* ------------------------------------------------------------------ C32
\* the workflow call made by this step, if it made one
NewWorkflowCall ==
    IF Len(workflow_calls') > Len(workflow_calls)
    THEN <<workflow_calls'[Len(workflow_calls')]>>
    ELSE <<>>

\* the moves to a stage asked for so far for an entry, as positions of the log
Moves(ref, stage) ==
    {k \in DOMAIN workflow_calls :
        /\ workflow_calls[k].op = "update_workflow_stage"
        /\ workflow_calls[k].ref = ref
        /\ workflow_calls[k].stage = stage}

ReviewFailed == {failed_entries[k].ref : k \in {n \in DOMAIN failed_entries :
                                                  failed_entries[n].stage = "review"}}

\* C32: in process_workflow_for_all_entries, for every entry (nested or root)
\* the move to the Approved stage is requested only after the move to the
\* Review stage succeeded for that same entry in this run; an entry whose
\* Review move failed is recorded as failed and never receives an Approved
\* request.
C32_ApprovedAfterReview ==
    [][/\ \A e \in Range(NewWorkflowCall) :
             (e.op = "update_workflow_stage" /\ e.stage = APPROVED_STAGE_UID) =>
                 /\ workflow_calls[Len(workflow_calls)] =
                        WorkflowCall("update_workflow_stage", e.ref, REVIEW_STAGE_UID, "ok")
                 /\ e.ref \notin ReviewFailed
       /\ \A e \in Range(NewWorkflowCall) :
             (e.op = "update_workflow_stage" /\ e.stage = REVIEW_STAGE_UID /\ e.resp = "raise") =>
                 /\ e.ref \in ReviewFailed'
                 /\ workflow' # "approved"
       /\ \A ref \in ReviewFailed : ref \in ReviewFailed' /\ Moves(ref, APPROVED_STAGE_UID)' = {}]_vars

\* a published document of which a nested entry failed its Review move and
\* got no Approved request, while the root got both
C32_Witness ==
    /\ workflow = "done"
    /\ \E ref \in ReviewFailed :
          /\ Moves(ref, REVIEW_STAGE_UID) # {}
          /\ Moves(ref, APPROVED_STAGE_UID) = {}
    /\ Moves(root_entry.ref, REVIEW_STAGE_UID) # {}
    /\ Moves(root_entry.ref, APPROVED_STAGE_UID) # {}

\* ------------------------------------------------------------------ C33
PublishCalls == {k \in DOMAIN workflow_calls :
                    workflow_calls[k].op = "publish_entry_with_deep_publish"}

RootMoves == {k \in DOMAIN workflow_calls :
                 /\ workflow_calls[k].op = "update_workflow_stage"
                 /\ workflow_calls[k].ref = root_entry.ref}

\* every nested entry and the root were asked to move to Review
AllAttempted ==
    /\ \A k \in DOMAIN nested_entries : Moves(nested_entries[k], REVIEW_STAGE_UID) # {}
    /\ Moves(root_entry.ref, REVIEW_STAGE_UID) # {}

\* C33: in complete_workflow_and_publish the gateway calls are ordered:
\* workflow transitions of all nested entries, then the workflow transitions
\* of the root, then the publish call; a failed workflow transition of any
\* entry does not prevent the later entries, the root, or the publish call
\* from being attempted.
C33_NestedRootPublish ==
    [][/\ \A e \in Range(NewWorkflowCall) :
             /\ PublishCalls = {}
             /\ (e.op = "update_workflow_stage" /\ e.ref # root_entry.ref) => RootMoves = {}
             /\ e.op = "publish_entry_with_deep_publish" => AllAttempted
       /\ (workflow' \in {"done", "raised"} /\ workflow' # workflow) =>
             /\ NewWorkflowCall # <<>>
             /\ NewWorkflowCall[1].op = "publish_entry_with_deep_publish"]_vars

\* a published document with a nested entry: a move of the nested entry
\* failed, the root was moved after it and the publish call came last
C33_Witness ==
    /\ workflow = "done"
    /\ Len(nested_entries) = 1
    /\ failed_entries # <<>>
    /\ failed_entries[1].ref = nested_entries[1]
    /\ Moves(root_entry.ref, APPROVED_STAGE_UID) # {}
    /\ PublishCalls = {Len(workflow_calls)}

\* ------------------------------------------------------------------- C34
\* the create calls of the processor that created an entry
ProcessorCreated ==
    {k \in DOMAIN calls : /\ calls[k].op = "create_entry"
                          /\ calls[k].by = "processor"
                          /\ calls[k].resp = "created"}

\* C34: every entry that create_entry_with_retry creates in the entry store,
\* by its first attempt or by the retry after a duplicate page_id, is created
\* from entry data whose tags hold 'migrated-from-cms'.
C34_CreatedCarryTag ==
    \A k \in ProcessorCreated :
        \E i \in DOMAIN calls[k].tags : calls[k].tags[i] = "migrated-from-cms"

\* one entry was created by a first attempt and a later one by the retry that
\* followed a duplicate page_id, both with the tag
C34_Witness ==
    \E k, n \in ProcessorCreated :
        /\ k < n - 1
        /\ calls[n - 1].op = "create_entry"
        /\ calls[n - 1].resp = "duplicate_page_id"
        /\ calls[k].tags = <<"migrated-from-cms">>
        /\ calls[n].tags = <<"migrated-from-cms">>

\* ------------------------------------------------------------------- C38
\* the entries created by a first attempt of create_entry_with_retry
CreatedAtFirst ==
    {calls[k].ref : k \in {n \in ProcessorCreated :
                              n = 1 \/ calls[n - 1].op # "create_entry"
                                    \/ calls[n - 1].resp # "duplicate_page_id"}}

\* C38: an entry that a create call of process_content created, by the first
\* attempt or by the retry after a duplicate page_id, is in created_entries
\* from then on until the rollback returns, and a rollback that has returned
\* has analysed it.
C38_CreatedTracked ==
    /\ position # "raised" => CreatedByRun \subseteq TrackedRefs
    /\ position = "raised" => CreatedByRun \subseteq Batch

\* what holds: the entries created by a first attempt are tracked and are
\* analysed by the rollback
C38_FirstAttemptTracked ==
    /\ position # "raised" => CreatedAtFirst \subseteq TrackedRefs
    /\ position = "raised" => CreatedAtFirst \subseteq Batch

\* the retry created an entry that is not tracked while the rollback analyses
\* the entries created before it
C38_RetryUntracked ==
    /\ position = "analyze"
    /\ CreatedByRun \ CreatedAtFirst # {}
    /\ (CreatedByRun \ CreatedAtFirst) \cap TrackedRefs = {}

\* ------------------------------------------------------------------- C35
\* the entry whose references the Analyzer leaves out for a reference query:
\* the traversal parent, the root for the root itself
FilterParent(e) == IF e.via # NoRef THEN e.via ELSE root

IsAnalyzerQuery(e) == e.op = "get_entry_references" /\ e.by = "analysis" /\ e.resp = "ok"

\* C35: the Analyzer removes a referrer only when it is the traversal parent
\* EntryRef itself; an entry with a referrer that is another EntryRef, by
\* content type or by id, gets a protected verdict.
C35_OnlyParentFiltered ==
    [][\A e \in Range(NewCall) :
          (IsAnalyzerQuery(e) /\ referrers'[e.ref] \ {FilterParent(e)} # {}) =>
              ~reference_analysis'[e.ref].to_be_deleted]_vars

\* what holds: a referrer whose uid differs from the parent's uid protects
C35_ByReferrerUid ==
    [][\A e \in Range(NewCall) :
          (/\ IsAnalyzerQuery(e)
           /\ \E d \in referrers'[e.ref] : ref_entry_uid(d) # e.parent) =>
              ~reference_analysis'[e.ref].to_be_deleted]_vars

\* an entry was deleted whose referrers include an entry that is not its
\* traversal parent but has the parent's uid
C35_SameUidDeleted ==
    \E i \in DOMAIN calls :
        /\ IsAnalyzerQuery(calls[i])
        /\ calls[i].ref \in deleted_entries
        /\ \E d \in referrers[calls[i].ref] :
              d # FilterParent(calls[i]) /\ ref_entry_uid(d) = calls[i].parent

\* ------------------------------------------------------------------- C36
\* the entry is in the one of orphaned_entries and referenced_entries that
\* its verdict names, and not in the other
InVerdictSet(k) ==
    /\ (k \in orphaned_entries) = reference_analysis[k].to_be_deleted
    /\ (k \in referenced_entries) = ~reference_analysis[k].to_be_deleted

\* C36: every EntryRef with a recorded verdict is in exactly one of
\* orphaned_entries and referenced_entries: in orphaned_entries iff its
\* verdict has to_be_deleted = true, in referenced_entries iff it has
\* to_be_deleted = false.
C36_VerdictInOneSet ==
    \A k \in DOMAIN reference_analysis : InVerdictSet(k)

\* what holds: the two sets hold only entries with a verdict of their kind,
\* and every verdict but 'Entry not found' is in its set
C36_FoundInOneSet ==
    /\ \A k \in orphaned_entries \cup referenced_entries :
          k \in DOMAIN reference_analysis /\ InVerdictSet(k)
    /\ \A k \in DOMAIN reference_analysis :
          reference_analysis[k].reason # "Entry not found" => InVerdictSet(k)

\* the analysis is over and the verdict of an entry that could not be fetched
\* is protected, but the entry is not in referenced_entries
C36_NotFoundUncounted ==
    /\ analysis_success = "true"
    /\ \E k \in DOMAIN reference_analysis :
          /\ reference_analysis[k].reason = "Entry not found"
          /\ ~reference_analysis[k].to_be_deleted
          /\ k \notin referenced_entries
          /\ k \notin orphaned_entries

\* ------------------------------------------------------------------- C37
\* the outcome sets of the Executor are kept apart, hold processed entries
\* only, and the deleted and the simulated ones were found orphaned
OutcomeSetsApart ==
    LET failed == DOMAIN failed_deletions
    IN /\ deleted_entries \cap would_delete_entries = {}
       /\ deleted_entries \cap failed = {}
       /\ would_delete_entries \cap failed = {}
       /\ deleted_entries \cup would_delete_entries \cup failed \subseteq processed_entries
       /\ deleted_entries \cup would_delete_entries \subseteq orphaned_entries

\* C37: at every point of a run deleted_entries, would_delete_entries and the
\* keys of failed_deletions are pairwise disjoint subsets of
\* processed_entries, and deleted_entries and would_delete_entries are
\* subsets of orphaned_entries.
C37_OutcomeSets ==
    [][OutcomeSetsApart']_vars

\* a run that deleted one entry and failed to delete another one
C37_Witness ==
    /\ phase = "done"
    /\ deleted_entries # {}
    /\ DOMAIN failed_deletions # {}
    /\ OutcomeSetsApart

\* ------------------------------------------------------------------- C39
\* the second invocation is over
Reordered == first.done /\ first.reordered /\ phase = "done"

\* both invocations deleted, or would have deleted, the same entries
SameDeleted ==
    /\ deleted_entries = first.deleted_entries
    /\ would_delete_entries = first.would_delete_entries

\* an entry with a verdict in both invocations has the same to_be_deleted
SameVerdicts ==
    \A k \in DOMAIN reference_analysis \cap DOMAIN first.reference_analysis :
        reference_analysis[k].to_be_deleted = first.reference_analysis[k].to_be_deleted

\* C39: with referrer lists that agree with the references of the bodies,
\* the entries that end up deleted and the to_be_deleted value of every
\* recorded verdict are the same for every order in which the walker visits
\* the children of a node.
C39_OrderIndependent ==
    Reordered => (SameDeleted /\ SameVerdicts)

\* no entry has a referrer of another content type with its own uid, so the
\* uid-only parent filter removes the traversal parent and nothing else
UidsTellReferrersApart ==
    /\ \A k \in Refs : \A p, q \in referrers[k] : p # q => UidOf(p) # UidOf(q)
    /\ \A q \in referrers[root] : q = root \/ UidOf(q) # UidOf(root)

\* what holds: the outcome does not depend on the order when the filter
\* cannot take another referrer for the parent
C39_OrderIndependentByUid ==
    (Reordered /\ UidsTellReferrersApart) => (SameDeleted /\ SameVerdicts)

\* the two invocations took the siblings of the root in different orders and
\* deleted different entries
C39_OrderDecides ==
    /\ Reordered
    /\ deleted_entries # first.deleted_entries

\* ------------------------------------------------------------------- C40
\* the analysis phase returned True
AnalysisSucceeded == analysis_success = "true" /\ reference_analysis_completed

\* the entries nested in the body of an entry that is clear for deletion
ChildrenOfOrphaned ==
    UNION {store[k].payload : k \in {e \in DOMAIN reference_analysis :
                                        reference_analysis[e].to_be_deleted}}

\* C40: after a successful analysis every EntryRef nested in the body of an
\* entry with to_be_deleted = true has a verdict of its own, and the Executor
\* meets no entry without a verdict.
C40_ChildrenAnalysed ==
    AnalysisSucceeded =>
        /\ ChildrenOfOrphaned \subseteq DOMAIN reference_analysis
        /\ \A k \in DOMAIN returned : returned[k].outcome # "not_analyzed"

\* what holds: a nested entry of an orphaned entry is without a verdict only
\* when its fetch in the children loop of the walker failed
C40_AnalysedUnlessFetchFailed ==
    AnalysisSucceeded =>
        \A c \in ChildrenOfOrphaned \ DOMAIN reference_analysis :
            \E i \in DOMAIN calls :
                /\ calls[i] = Event("get_entry", "analysis", c, "none", NoUid, NoRef)

\* the Executor deleted an entry, or would have, after skipping a nested
\* entry of it as not analysed
C40_UnanalysedChildMet ==
    \E k \in DOMAIN returned :
        /\ returned[k].outcome = "not_analyzed"
        /\ returned[k].caller \in deleted_entries \cup would_delete_entries

====
